---- MODULE Spec2Model ----
(***************************************************************************)
(* Model of the pynereal two-service bar pipeline.                         *)
(*                                                                         *)
(* Data service (one asyncio event loop): trade collector, gap fixer,      *)
(* file updater and the /ws connection handlers, sharing state.lock.       *)
(* Runner service (a separate process): the bus receive loop with its Run  *)
(* Context.                                                                *)
(*                                                                         *)
(* Specifications: SpecData (the three loops of the data service, trades   *)
(* on time or late), SpecRun (the data service with the runner as its only *)
(* client), Spec (with a second client on /ws), SpecFix (a market with two *)
(* prices), SpecCache (the bar cache and its file export and import),      *)
(* SpecOps (script edits, strategy results and failing iterations),        *)
(* SpecStep (the runner's steps and results over the longer run),          *)
(* SpecStream (the bar stream with its consumer), SpecKeep (frames on the  *)
(* bus that are not JSON), SpecStage (the staged pre-run event under weak  *)
(* fairness of the updater, the handlers and the runner) and SpecTrades    *)
(* (trade events received by /ws).                                         *)
(*                                                                         *)
(* Timestamps are kept in the units of the code: milliseconds in the live  *)
(* buffer and in lifecycle payloads, seconds in the canonical file and in  *)
(* the runner.  A bar is a record [ts, o, c, v]; v = 1 stands for a traded *)
(* volume, v = 0 for the gap fixer's 0.01 and v = -1 for the file's        *)
(* negative-volume gap sentinel.                                           *)
(***************************************************************************)
EXTENDS Integers, Sequences, FiniteSets, Bags, TLC

(***************************************************************************)
(* Bounds of the model.                                                    *)
(***************************************************************************)
StepsPerBar == 2      \* clock instants per timeframe window
DataSteps == 7        \* clock instants explored: the data service alone
RunSteps == 6         \* clock instants explored: data service and runner
BusSteps == 5         \* clock instants explored: with a second client
FixSteps == 6         \* clock instants explored: a market with two prices
CacheSlots == 4       \* bar positions a cache partition can hold
BatchSize == 2        \* rows per upsert batch of the file import
OpsSteps == 4         \* clock instants explored: script edits and failures
MaxRestarts == 1      \* failed iterations of the trade collector
MaxStream == 4        \* items given to one bar stream
MaxFrames == 1        \* frames that are not JSON, each way
MaxTrades == 4        \* trade events received by /ws

(***************************************************************************)
(* Configuration and program constants.                                    *)
(***************************************************************************)
Timeframe == [unit |-> "m", value |-> 1]

convert_timeframe_ms(tf) ==
    LET minutes == IF tf.unit = "m" THEN tf.value
                   ELSE IF tf.unit = "h" THEN tf.value * 60
                   ELSE tf.value * 24 * 60
    IN  minutes * 60 * 1000

tf_ms == convert_timeframe_ms(Timeframe)
grace_ms == 200
pre_run_script_time == tf_ms \div 2

ClockStepMs == tf_ms \div StepsPerBar
FirstBarTs == tf_ms                       \* open time of the oldest history bar
InitNow == 3 * tf_ms                      \* wall clock when the loops start
Prices == {1}
Lateness == {0, tf_ms}                    \* how late a batch of trades can arrive

Window(t) == (t \div tf_ms) * tf_ms       \* open time of the bar containing t
ToSec(ms) == ms \div 1000                 \* int(ts / 1000)

Conns == {"c1", "c2"}
RunnerConn == "c1"
OtherConn == "c2"

Last(s) == s[Len(s)]

(***************************************************************************)
(* The canonical file: a sequence of records with ts in seconds.  The      *)
(* reader/writer positions records at (ts - start_ts) / interval.          *)
(***************************************************************************)
Interval == ToSec(tf_ms)

Bar(ts, o, c, v) == [ts |-> ts, o |-> o, c |-> c, v |-> v]

\* a value narrowed to the 32-bit float of a record field: integers up to
\* 2^24 are exact, above it (up to 2^25) only the even ones, ties to even
F32(x) ==
    IF x <= 16777216 \/ x % 2 = 0 THEN x
    ELSE IF (x - 1) % 4 = 0 THEN x - 1 ELSE x + 1

\* the record as the file holds it: <i32 ts, f32 open, ..., f32 volume>
PackRecord(bar) == Bar(bar.ts, F32(bar.o), F32(bar.c), F32(bar.v))

\* position of ts in the file (0-based record index)
SeekPos(f, ts) == (ts - f[1].ts) \div Interval

\* writer.seek_to_timestamp(ts); writer.truncate()
SeekTruncate(f, ts) ==
    IF SeekPos(f, ts) < Len(f) THEN SubSeq(f, 1, SeekPos(f, ts)) ELSE f

\* records with volume -1 for the timestamps between the end of f and ts
RECURSIVE GapFill(_, _)
GapFill(f, ts) ==
    IF f = <<>> \/ Last(f).ts + Interval >= ts THEN f
    ELSE GapFill(Append(f, Bar(Last(f).ts + Interval, Last(f).c, Last(f).c, -1)), ts)

\* writer.write(candle) at the end of a file truncated at the candle's ts
WriteRecord(f, candle) == Append(GapFill(f, candle.ts), PackRecord(candle))

\* one candle of update_ohlcv_data: the record written for cd, given the
\* last timestamp and last open read before the rewrite started
CandleRecord(cd, last_timestamp, last_open_price) ==
    Bar(ToSec(cd.ts),
        IF ToSec(cd.ts) = last_timestamp /\ cd.o # last_open_price
            THEN last_open_price ELSE cd.o,
        cd.c, cd.v)

\* update_ohlcv_data run to its end: [file, inc]
RECURSIVE UpdateLoop_NoSeek(_, _, _, _, _)
UpdateLoop_NoSeek(f, cds, last_timestamp, last_open_price, inc) ==
    IF cds = <<>> THEN [file |-> f, inc |-> inc]
    ELSE LET g == WriteRecord(f, CandleRecord(Head(cds), last_timestamp, last_open_price))
         IN  UpdateLoop_NoSeek(g, Tail(cds), last_timestamp, last_open_price,
                               inc + Len(g) - Len(f))

RECURSIVE UpdateLoop(_, _, _, _, _)
UpdateLoop(f, cds, last_timestamp, last_open_price, inc) ==
    IF cds = <<>> THEN [file |-> f, inc |-> inc]
    ELSE LET g == WriteRecord(SeekTruncate(f, ToSec(Head(cds).ts)),
                              CandleRecord(Head(cds), last_timestamp, last_open_price))
         IN  UpdateLoop(g, Tail(cds), last_timestamp, last_open_price,
                        inc + Len(g) - Len(f))

update_ohlcv_data(f, cds) == UpdateLoop(f, cds, Last(f).ts, Last(f).o, 0)

(***************************************************************************)
(* The bar cache: the rows of one partition, at most one row per ts.       *)
(***************************************************************************)
\* INSERT ... ON CONFLICT(..., ts) DO UPDATE for each bar of the batch
RECURSIVE upsert_bars(_, _)
upsert_bars(K, bars) ==
    IF bars = <<>> THEN K
    ELSE upsert_bars({r \in K : r.ts # Head(bars).ts} \cup {Head(bars)}, Tail(bars))

\* SELECT ... ORDER BY ts
RECURSIVE RangeScan(_)
RangeScan(K) ==
    IF K = {} THEN <<>>
    ELSE LET row == CHOOSE r \in K : \A q \in K : r.ts <= q.ts
         IN  <<row>> \o RangeScan(K \ {row})

\* writer.write(row) for each row of the scan, into a truncated file
RECURSIVE WriteRows(_, _)
WriteRows(f, rows) ==
    IF rows = <<>> THEN f ELSE WriteRows(WriteRecord(f, Head(rows)), Tail(rows))

export_to_ohlcv(K) == WriteRows(<<>>, RangeScan(K))

\* the read loop of import_from_ohlcv without the flush of the last batch
RECURSIVE ImportLoop_NoFlush(_, _, _, _)
ImportLoop_NoFlush(K, f, idx, batch) ==
    IF idx > Len(f) THEN K
    ELSE LET b == Append(batch, f[idx])
         IN  IF Len(b) >= BatchSize
                 THEN ImportLoop_NoFlush(upsert_bars(K, b), f, idx + 1, <<>>)
                 ELSE ImportLoop_NoFlush(K, f, idx + 1, b)

\* the read loop of import_from_ohlcv: every record of the file, upserted
\* in batches, the remainder after the loop
RECURSIVE ImportLoop(_, _, _, _)
ImportLoop(K, f, idx, batch) ==
    IF idx > Len(f) THEN (IF batch # <<>> THEN upsert_bars(K, batch) ELSE K)
    ELSE LET b == Append(batch, f[idx])
         IN  IF Len(b) >= BatchSize
                 THEN ImportLoop(upsert_bars(K, b), f, idx + 1, <<>>)
                 ELSE ImportLoop(K, f, idx + 1, b)

import_from_ohlcv(K, f) == ImportLoop(K, f, 1, <<>>)

\* the last n records of the file, read back and upserted
SyncCache(K, f, n) == upsert_bars(K, SubSeq(f, Len(f) - n + 1, Len(f)))

\* the provider's history up to the bar in progress at time t
RECURSIVE HistoryUpTo(_)
HistoryUpTo(ts) ==
    IF ts < ToSec(FirstBarTs) THEN <<>>
    ELSE Append(HistoryUpTo(ts - Interval), Bar(ts, 1, 1, 1))

DownloadedHistory(t) == HistoryUpTo(ToSec(Window(t)))

\* what a failed download can leave on disk: nothing, or the first records
PartialDownloads(t) == {<<>>, SubSeq(DownloadedHistory(t), 1, 1)}

\* "for fp in (ohlcv_path, toml_path): if fp.exists(): fp.unlink()"
UnlinkPartial_Keep(partial) == [exists |-> partial # <<>>, file |-> partial]

UnlinkPartial(partial) == [exists |-> FALSE, file |-> <<>>]

(***************************************************************************)
(* Trade collector helpers.  collected_trades is kept as the candles that  *)
(* build_ohlcvc makes of the collected trades (ascending ts).              *)
(***************************************************************************)
NoTrade == [ts |-> 0, p |-> 0]

\* state.collected_trades.extend(ws_trades) seen through build_ohlcvc
ExtendTrades(cands, tr) ==
    IF tr = NoTrade THEN cands
    ELSE IF cands # <<>> /\ Last(cands).ts = Window(tr.ts)
        THEN [cands EXCEPT ![Len(cands)].c = tr.p]
        ELSE Append(cands, Bar(Window(tr.ts), tr.p, tr.p, 1))

\* one iteration of "for bar in generated" on the live buffer
CollectorStep_AppendOlder(bars, bar) ==
    LET last_ts == IF bars # <<>> THEN Last(bars).ts ELSE 0
    IN  IF bar.ts = last_ts THEN [bars EXCEPT ![Len(bars)] = bar]
        ELSE Append(bars, bar)

CollectorStep(bars, bar) ==
    LET last_ts == IF bars # <<>> THEN Last(bars).ts ELSE 0
    IN  IF bar.ts = last_ts THEN [bars EXCEPT ![Len(bars)] = bar]
        ELSE IF bar.ts > last_ts THEN Append(bars, bar)
        ELSE bars

RECURSIVE CollectorFold(_, _)
CollectorFold(bars, generated) ==
    IF generated = <<>> THEN bars
    ELSE CollectorFold(CollectorStep(bars, Head(generated)), Tail(generated))

\* bar_to_push at the end of "for bar in generated"
BarToPush_Any(bars, generated, push) ==
    IF generated = <<>> THEN push ELSE Last(generated)

RECURSIVE BarToPush(_, _, _)
BarToPush(bars, generated, push) ==
    IF generated = <<>> THEN push
    ELSE LET bar     == Head(generated)
             last_ts == IF bars # <<>> THEN Last(bars).ts ELSE 0
         IN  BarToPush(CollectorStep(bars, bar), Tail(generated),
                       IF bar.ts = last_ts \/ bar.ts > last_ts THEN bar ELSE push)

\* the payload broadcast_bar makes of a buffer bar
BarPayload(bar) == [time |-> (bar.ts \div 1000), o |-> bar.o, c |-> bar.c, v |-> bar.v]

\* the trades kept by filter_by_since_limit after the appends of one batch
RECURSIVE FilterSince(_, _)
FilterSince(cands, since) ==
    IF cands = <<>> THEN <<>>
    ELSE IF Head(cands).ts >= since THEN cands
    ELSE FilterSince(Tail(cands), since)

CollectedAfter(bars, generated) ==
    IF Len(CollectorFold(bars, generated)) > Len(bars)
        THEN FilterSince(generated, Last(CollectorFold(bars, generated)).ts)
        ELSE generated

(***************************************************************************)
(* Gap fixer helper: the timestamp to fill, 0 when there is none.          *)
(***************************************************************************)
MissingTs_LastBar(bars, now_ms, last_fix) ==
    LET expected == Last(bars).ts + tf_ms
        has_next == \E i \in 1..Len(bars) : bars[i].ts = expected
    IN  IF now_ms >= expected + grace_ms /\ ~has_next /\ last_fix # expected
            THEN Last(bars).ts ELSE 0

MissingTs_LateGrace(bars, now_ms, last_fix) ==
    LET expected == Last(bars).ts + tf_ms
        has_next == \E i \in 1..Len(bars) : bars[i].ts = expected
    IN  IF now_ms >= expected + tf_ms + grace_ms /\ ~has_next /\ last_fix # expected
            THEN expected ELSE 0

MissingTs(bars, now_ms, last_fix) ==
    LET expected == Last(bars).ts + tf_ms
        has_next == \E i \in 1..Len(bars) : bars[i].ts = expected
    IN  IF now_ms >= expected + grace_ms /\ ~has_next /\ last_fix # expected
            THEN expected ELSE 0

FakeBar_LastTs(bars, missing_ts) == Bar(Last(bars).ts, Last(bars).c, Last(bars).c, 0)

FakeBar(bars, missing_ts) == Bar(missing_ts, Last(bars).c, Last(bars).c, 0)

(***************************************************************************)
(* File updater helpers.                                                   *)
(***************************************************************************)
\* fix_last_open_if_needed: [file, fixed] (fixed = 0.0 when nothing was fixed)
fix_last_open_if_needed_NoWrite(f) ==
    IF Len(f) >= 2 /\ Last(f).o # f[Len(f) - 1].c
        THEN [file |-> f, fixed |-> f[Len(f) - 1].c]
        ELSE [file |-> f, fixed |-> 0]

fix_last_open_if_needed(f) ==
    IF Len(f) >= 2 /\ Last(f).o # f[Len(f) - 1].c
        THEN [file  |-> [f EXCEPT ![Len(f)].o = f[Len(f) - 1].c],
              fixed |-> f[Len(f) - 1].c]
        ELSE [file |-> f, fixed |-> 0]

\* the candles fetch_ohlcv returns at time t: from one interval before the
\* file's last bar up to the bar in progress (ts in ms), each opened at p
RECURSIVE CandlesFromTo(_, _, _)
CandlesFromTo(from, to, p) ==
    IF from > to THEN <<>>
    ELSE <<Bar(from, p, 1, 1)>> \o CandlesFromTo(from + tf_ms, to, p)

FetchedCandles(f, t, p) ==
    CandlesFromTo((Last(f).ts - Interval) * 1000, Window(t), p)

\* the condition of the pre-run block
RuleBCond_AtLeastTwo(bars, exists, fix_done, t) ==
    /\ Len(bars) >= 2
    /\ exists
    /\ ~fix_done
    /\ t >= bars[2].ts + pre_run_script_time

RuleBCond_Early(bars, exists, fix_done, t) ==
    /\ Len(bars) = 2
    /\ exists
    /\ ~fix_done

RuleBCond(bars, exists, fix_done, t) ==
    /\ Len(bars) = 2
    /\ exists
    /\ ~fix_done
    /\ t >= bars[2].ts + pre_run_script_time

\* confirmed_bar_and_new_bar[0][1] = fixed_open_price (patches the list in place)
PatchOpen_None(bars, i, fixed) == bars

PatchOpen(bars, i, fixed) ==
    IF fixed > 0 THEN [bars EXCEPT ![i].o = fixed] ELSE bars

\* "if incremented_size > 0" of the rollover block
EmitsRunReady_Always(incremented_size) == incremented_size >= 0

EmitsRunReady(incremented_size) == incremented_size > 0

\* the condition of the rollover block
RuleCCond(bars, exists) == Len(bars) >= 3 /\ exists

\* confirmed_bar_and_new_bar = bars[1:]
RuleCKeep_DropLast(bars) == SubSeq(bars, 1, Len(bars) - 1)

RuleCKeep(bars) == Tail(bars)

(***************************************************************************)
(* Runner helpers.                                                         *)
(***************************************************************************)
\* ready_scrip_runner: size minus the bars with volume < 0, minus one
RECURSIVE GapCount(_)
GapCount(f) ==
    IF f = <<>> THEN 0
    ELSE (IF Head(f).v < 0 THEN 1 ELSE 0) + GapCount(Tail(f))

LastBarIndexOf(f) == Len(f) - GapCount(f) - 1

parse_timeframe_to_ms(tf) ==
    IF tf.unit = "m" THEN tf.value * 60 * 1000
    ELSE IF tf.unit = "h" THEN tf.value * 60 * 60 * 1000
    ELSE tf.value * 24 * 60 * 60 * 1000

\* incremented_size of the run_ready handler
IncrementedSize_AtLeast(new_ts_sec, last_new_bar_ts_sec) ==
    IF (new_ts_sec - last_new_bar_ts_sec) * 1000 >= parse_timeframe_to_ms(Timeframe)
        THEN 1 ELSE 0

IncrementedSize(new_ts_sec, last_new_bar_ts_sec) ==
    IF (new_ts_sec - last_new_bar_ts_sec) * 1000 = parse_timeframe_to_ms(Timeframe)
        THEN 1 ELSE 0

\* ctx is None; stream is what the AppendableIterable of a context still
\* holds, gaps the gap records counted when the context was built
NoCtx == [live |-> FALSE, last_bar_index |-> 0, last_new_bar_ts_sec |-> 0,
          stream |-> <<>>, gaps |-> 0]

\* ctx at the end of the run_ready handler
CtxAfterRun_Keep(ctx) == ctx

CtxAfterRun(ctx) == NoCtx

\* bar_list_to_ohlcv: a bar of a message as the OHLCV handed to the stream
bar_list_to_ohlcv(bar) == Bar(ToSec(bar.ts), F32(bar.o), F32(bar.c), F32(bar.v))

\* the pre-run handler: prerun_range is size - 1, one more after a download
PrerunRange(f, type) ==
    LastBarIndexOf(f)
        + (IF type = "prerun_ready_after_history_download" THEN 1 ELSE 0)

\* runner.script.pre_run as the pre-run handler leaves it before its loop
PreRunFlag(type) == type # "prerun_ready_after_history_download"

\* OHLCVReader.read_from, which fills preload_list: the records of the file
\* in order, the negative-volume gap records left out
RECURSIVE read_from(_)
read_from(f) ==
    IF f = <<>> THEN <<>>
    ELSE (IF Head(f).v < 0 THEN <<>> ELSE <<Head(f)>>) \o read_from(Tail(f))

\* the pre-run loop over the preloaded stream: each step takes the next
\* item of the queue; pre holds the pre_run flag each step ran under
PrerunLoop(f, type) ==
    LET n == IF PrerunRange(f, type) > 0 THEN PrerunRange(f, type) ELSE 0
    IN  [steps |-> n,
         pre   |-> [i \in 1..n |-> PreRunFlag(type)],
         q     |-> SubSeq(read_from(f), n + 1, Len(read_from(f)))]

\* AppendableIterable.replace_last
replace_last_Keep(q, item) == q

replace_last(q, item) == [q EXCEPT ![Len(q)] = item]

\* the run_ready handler: replace_last(confirmed), append(new), finish
StreamAtRun(q, bars) ==
    Append(replace_last(q, bar_list_to_ohlcv(bars[1])), bar_list_to_ohlcv(bars[2]))

\* the run_ready handler's loop: step() until it returns None, which the
\* finished stream does once every queued item was taken
StepToEnd(q) == [steps |-> Len(q), seen |-> q]

\* the run_ready handler steps and sends under "if incremented_size > 0"
StepsOnIncrement_Always(incremented_size) == incremented_size >= 0

StepsOnIncrement(incremented_size) == incremented_size > 0

\* the pre-run handler's "if ctx is not None: continue"
DuplicatePrerun_Never(ctx) == FALSE

DuplicatePrerun(ctx) == ctx.live

\* the preloaded items of a stream and the items appended to it
StreamPreload == <<1, 2>>

StreamItems == {3, 4}

\* AppendableIterable(ohlcv_iter, feed_in_background=True): the runner leaves
\* auto_close_when_empty at its default
auto_close_always == TRUE

auto_close_when_empty == FALSE

\* what a handler that does not step the strategy leaves behind
NoSteps == [steps |-> 0, pre |-> <<>>, seen |-> <<>>, gaps |-> 0, queued |-> 0]

(***************************************************************************)
(* State.                                                                  *)
(***************************************************************************)
VARIABLES
    now,                              \* wall clock / exchange time, ms
    horizon,                          \* the last clock instant explored
    \* DataState
    live_bars, collected_trades, last_fix_bar_ts, pending_prerun_event,
    lock, lockq,                      \* state.lock: holder and FIFO waiters
    \* file_update_loop
    updpc, history_download_complete, first_fetch_after_download_done,
    open_fix_done, fixed_open_price, prerun_sent_for_bar_ts,
    file_exists, file,
    emitting,                         \* the payload handed to emit_event
    \* update_ohlcv_data in progress (Rule C)
    wq, wphase, worig, winc, wlast, wpre,
    \* /ws connections: client side, handler position, messages in flight
    cl, hpc, inbox, out,
    \* runner
    rctx,
    \* history variables
    prerun_emitted,                   \* bag of the new-bar ts of emitted prerun_ready
    run_emitted_max,                  \* largest new-bar ts of an emitted run_ready
    tickEmits,                        \* emit_event calls of the updater's iteration
    fix_appended,                     \* bag of the ts of the gap fixer's bars
    pendSince,                        \* the connection was made with an event pending
    first,                            \* first lifecycle message of such a connection
    rlast,                            \* the runner's last handled message
    market,                           \* the prices at which the market trades
    bar_sent,                         \* the last `bar` payload broadcast
    ruleb,                            \* the updater's last step on the file: "fetch", "fix", "dlfail"
    \* failures
    upd_err,                          \* an exception ended file_update_loop
    rloop,                            \* the runner's receive loop
    col_restarts,                     \* the collector re-created its client
    \* script-change detection and strategy results
    script_hash, stored_hash,         \* compute_script_hashes / .script_hash.csv
    trade_event_queue, plotchar_event_queue, r_plot_options,   \* runner
    trades_history, d_plot_options,   \* data service
    reset_seen,                       \* the data service took a reset_history
    \* the persistent bar cache: export and import of a partition
    cache_src, cache_file, cache_dst, cache_pc,
    s_q, s_closed,                    \* AppendableIterable: _q and _closed
    s_base,                           \* what the feeding thread has yet to feed
    s_pc,                             \* the consumer: "idle", "wait" (in _cv.wait), "done"
    s_err,                            \* the exception a call on the stream raised
    s_in, s_got,                      \* the items enqueued and the items yielded
    s_waited,                         \* the consumer has been in _cv.wait
    d_dropped, r_dropped,             \* frames dropped by /ws and by the runner
    t_batch,                          \* the trade events of the frame a /ws handler is in
    t_recv, t_bcast,                  \* trade events taken and trade events broadcast
    reset_try                         \* the hash check of the last connect of the runner

clockV == <<now, horizon, market>>
faultV == <<upd_err, rloop, col_restarts>>
scriptV == <<script_hash, stored_hash, trade_event_queue, plotchar_event_queue,
             r_plot_options, trades_history, d_plot_options, reset_seen>>
cacheV == <<cache_src, cache_file, cache_dst, cache_pc>>
keepV == <<d_dropped, r_dropped>>
tradeV == <<t_batch, t_recv, t_bcast>>
hashV == <<reset_try>>
streamV == <<s_q, s_closed, s_base, s_pc, s_err, s_in, s_got, s_waited>>
auxV   == <<bar_sent, ruleb, faultV, scriptV, streamV, keepV, tradeV, hashV, cacheV>>
bufV   == <<live_bars, collected_trades, last_fix_bar_ts>>
lockV  == <<lock, lockq>>
updV   == <<history_download_complete, first_fetch_after_download_done,
            open_fix_done, fixed_open_price, prerun_sent_for_bar_ts>>
fileV  == <<file_exists, file>>
wrV    == <<wq, wphase, worig, winc, wlast, wpre>>
connV  == <<cl, hpc, inbox, out, first, pendSince>>
runV   == <<rctx, rlast>>
emitV  == <<emitting, prerun_emitted, run_emitted_max, tickEmits>>
coreV  == <<clockV, bufV, pending_prerun_event, lockV, updpc, updV, fileV, wrV,
            connV, runV, emitV, fix_appended>>

vars == <<now, horizon, live_bars, collected_trades, last_fix_bar_ts, pending_prerun_event,
          lock, lockq,
          updpc, history_download_complete, first_fetch_after_download_done,
          open_fix_done, fixed_open_price, prerun_sent_for_bar_ts,
          file_exists, file, emitting, wq, wphase, worig, winc, wlast, wpre,
          cl, hpc, inbox, out, rctx,
          prerun_emitted, run_emitted_max, tickEmits, fix_appended,
          first, pendSince, rlast, market, bar_sent, ruleb,
          upd_err, rloop, col_restarts, script_hash, stored_hash,
          trade_event_queue, plotchar_event_queue, r_plot_options,
          trades_history, d_plot_options, reset_seen,
          cache_src, cache_file, cache_dst, cache_pc,
          s_q, s_closed, s_base, s_pc, s_err, s_in, s_got, s_waited,
          d_dropped, r_dropped, t_batch, t_recv, t_bcast, reset_try>>

Msg(type, bars) == [type |-> type, bars |-> bars]

NoMsg == Msg("none", <<>>)

NoLast == [type |-> "none", inc |-> 0, torn |-> FALSE, had_ctx |-> FALSE,
           steps |-> 0, pre |-> <<>>, seen |-> <<>>, gaps |-> 0, queued |-> 0]

NoWLast == [ts |-> 0, o |-> 0]

\* bar_to_push = None
NoBar == [ts |-> 0, o |-> 0, c |-> 0, v |-> 0]

\* the payload of broadcast_bar, None when nothing was broadcast yet
NoPayload == [time |-> 0, o |-> 0, c |-> 0, v |-> 0]

\* the state when file_update_loop reaches its polling loop: either the cache
\* had data (file exported, pending event staged) or it had none (files removed)
InitEnv(steps, prices) ==
    /\ now = InitNow
    /\ horizon = InitNow + steps * ClockStepMs
    /\ market = prices
    /\ live_bars = <<>>
    /\ collected_trades = <<>>
    /\ last_fix_bar_ts = 0
    /\ lock = "free" /\ lockq = <<>>
    /\ updpc = "sleep"
    /\ \E cache_ready \in BOOLEAN :
          /\ history_download_complete = cache_ready
          /\ pending_prerun_event = cache_ready
          /\ file_exists = cache_ready
          /\ file = IF cache_ready THEN DownloadedHistory(InitNow) ELSE <<>>
          /\ cache_src = IF cache_ready
                            THEN import_from_ohlcv({}, DownloadedHistory(InitNow))
                            ELSE {}
    /\ first_fetch_after_download_done = FALSE
    /\ open_fix_done = FALSE
    /\ fixed_open_price = 0
    /\ prerun_sent_for_bar_ts = 0
    /\ emitting = NoMsg
    /\ wq = <<>> /\ wphase = "none" /\ worig = 0 /\ winc = 0
    /\ wlast = NoWLast /\ wpre = <<>>
    /\ cl = [c \in Conns |-> FALSE]
    /\ hpc = [c \in Conns |-> "none"]
    /\ inbox = <<>>
    /\ out = <<>>
    /\ rctx = NoCtx
    /\ prerun_emitted = EmptyBag /\ run_emitted_max = 0 /\ tickEmits = 0
    /\ fix_appended = EmptyBag
    /\ first = [c \in Conns |-> "none"]
    /\ pendSince = [c \in Conns |-> FALSE]
    /\ rlast = NoLast
    /\ bar_sent = NoPayload
    /\ ruleb = "none"
    /\ upd_err = FALSE /\ rloop = "running" /\ col_restarts = 0
    /\ script_hash = 1 /\ stored_hash = 1
    /\ trade_event_queue = <<>> /\ plotchar_event_queue = <<>>
    /\ r_plot_options = {}
    /\ trades_history = <<>> /\ d_plot_options = {}
    /\ reset_seen = FALSE
    /\ cache_file = <<>> /\ cache_dst = {}
    /\ cache_pc = "open"
    /\ s_q = <<>> /\ s_closed = FALSE /\ s_base = StreamPreload
    /\ s_pc = "idle" /\ s_err = "none" /\ s_in = <<>> /\ s_got = <<>>
    /\ s_waited = FALSE
    /\ d_dropped = 0 /\ r_dropped = 0
    /\ t_batch = [c \in Conns |-> <<>>] /\ t_recv = <<>> /\ t_bcast = <<>>
    /\ reset_try = "none"

InitWith(steps) == InitEnv(steps, Prices)

Init == InitWith(BusSteps)

InitRun == InitWith(RunSteps)

InitData == InitWith(DataSteps)

\* the event loop of the data service can run another task: the file updater
\* is suspended in a sleep, a lock wait or an awaited broadcast
DIdle == updpc \in {"sleep", "wait", "emitB", "emitC"}

LockFree == lock = "free"

Acquire(t) == lock' = t /\ lockq' = lockq
Enqueue(t) == lock' = lock /\ lockq' = Append(lockq, t)
Release ==
    /\ lock' = IF lockq = <<>> THEN "free" ELSE Head(lockq)
    /\ lockq' = IF lockq = <<>> THEN <<>> ELSE Tail(lockq)

(***************************************************************************)
(* The clock.  A clock instant passes while the data service sleeps or     *)
(* sits in a provider call; a lock hand-over, an awaited send and a file   *)
(* rewrite are short next to ClockStepMs.                                  *)
(***************************************************************************)
Tick ==
    /\ now < horizon
    /\ LockFree \/ updpc \in {"download", "fetch"}
    /\ now' = now + ClockStepMs
    /\ UNCHANGED <<horizon, market>>
    /\ UNCHANGED <<auxV, bufV, pending_prerun_event, lockV,  updpc, updV,
                   fileV, wrV, connV, runV, emitV, fix_appended>>

(***************************************************************************)
(* watch_trades_loop and fix_missing_bars_loop.  Their lock blocks hold no *)
(* await: a wait for state.lock followed by the block is the block run at  *)
(* the moment the lock is free for the task.                               *)
(***************************************************************************)
ColBody(tr) ==
    LET generated   == ExtendTrades(collected_trades, tr)
        bar_to_push == BarToPush(live_bars, generated, NoBar)
    IN  /\ live_bars' = CollectorFold(live_bars, generated)
        /\ collected_trades' = CollectedAfter(live_bars, generated)
        /\ bar_sent' = IF bar_to_push # NoBar THEN BarPayload(bar_to_push)
                                              ELSE bar_sent
        /\ UNCHANGED last_fix_bar_ts

\* watch_trades returns a batch of trades made late ms ago; the stream
\* delivers trades in the order of their timestamps
ColReceive(late) ==
    /\ DIdle /\ LockFree
    /\ collected_trades # <<>> => Window(now - late) >= Last(collected_trades).ts
    /\ \E p \in market : ColBody([ts |-> now - late, p |-> p])
    /\ UNCHANGED <<ruleb, faultV, scriptV, streamV, keepV, tradeV, hashV, cacheV, clockV, pending_prerun_event, lockV, updpc, updV, fileV, wrV,
                   connV, runV, emitV, fix_appended>>

FixBody(now_ms) ==
    IF Len(live_bars) >= 2 /\ MissingTs(live_bars, now_ms, last_fix_bar_ts) # 0
        THEN LET missing_ts == MissingTs(live_bars, now_ms, last_fix_bar_ts)
             IN  /\ live_bars' = Append(live_bars, FakeBar(live_bars, missing_ts))
                 /\ last_fix_bar_ts' = missing_ts
                 /\ fix_appended' = fix_appended (+) SetToBag({missing_ts})
                 /\ UNCHANGED collected_trades
        ELSE UNCHANGED <<bufV, fix_appended>>

\* one poll of the gap fixer
FixPoll ==
    /\ DIdle /\ LockFree
    /\ FixBody(now)
    /\ UNCHANGED <<auxV, clockV, pending_prerun_event, lockV, updpc, updV, fileV, wrV,
                   connV, runV, emitV>>

(***************************************************************************)
(* ws_manager.broadcast_json: the message reaches every registered         *)
(* connection whose client is still there.                                 *)
(***************************************************************************)
Registered(c) == hpc[c] # "none"

Broadcast(m) ==
    /\ inbox' = IF Registered(RunnerConn) /\ cl[RunnerConn]
                    THEN Append(inbox, m) ELSE inbox
    /\ first' = [c \in Conns |->
                    IF Registered(c) /\ cl[c] /\ pendSince[c] /\ first[c] = "none"
                        THEN m.type ELSE first[c]]
    /\ UNCHANGED <<cl, hpc, out, pendSince>>

(***************************************************************************)
(* file_update_loop: one iteration, cut at the calls that block the event  *)
(* loop (download, fetch, file rewrite) and at the awaited broadcasts.     *)
(***************************************************************************)
\* after "async with state.lock": Rule A decides on the missing file
AfterLock == IF ~file_exists THEN "download" ELSE "ruleB"

UpdWake ==
    /\ updpc = "sleep"
    /\ IF LockFree
          THEN /\ Acquire("upd")
               /\ updpc' = AfterLock
               /\ tickEmits' = 0
          ELSE /\ Enqueue("upd")
               /\ updpc' = "wait"
               /\ UNCHANGED tickEmits
    /\ UNCHANGED <<auxV, clockV, bufV, pending_prerun_event,  updV, fileV,
                   wrV, connV, runV, emitting, prerun_emitted, run_emitted_max,
                   fix_appended>>

UpdGranted ==
    /\ updpc = "wait" /\ lock = "upd"
    /\ updpc' = AfterLock
    /\ tickEmits' = 0
    /\ UNCHANGED <<auxV, clockV, bufV, pending_prerun_event, lockV,  updV,
                   fileV, wrV, connV, runV, emitting, prerun_emitted,
                   run_emitted_max, fix_appended>>

\* Rule A: download_history returns
UpdDownloadDone ==
    /\ updpc = "download"
    /\ \E ok \in BOOLEAN :
          IF ~ok
            THEN /\ \E partial \in PartialDownloads(now) :
                       /\ file_exists' = UnlinkPartial(partial).exists
                       /\ file' = UnlinkPartial(partial).file
                 /\ ruleb' = "dlfail"
                 /\ Release
                 /\ updpc' = "sleep"
                 /\ UNCHANGED <<updV, pending_prerun_event, cache_src>>
            ELSE /\ file_exists' = TRUE
                 /\ file' = DownloadedHistory(now)
                 /\ cache_src' = import_from_ohlcv(cache_src, DownloadedHistory(now))
                 /\ history_download_complete' = TRUE
                 /\ first_fetch_after_download_done' = FALSE
                 /\ pending_prerun_event' = TRUE
                 /\ fixed_open_price' = 0
                 /\ open_fix_done' = FALSE
                 /\ prerun_sent_for_bar_ts' = 0
                 /\ ruleb' = "none"
                 /\ updpc' = "ruleB"
                 /\ UNCHANGED lockV
    /\ UNCHANGED <<bar_sent, faultV, scriptV, streamV, keepV, tradeV, hashV, cache_file, cache_dst, cache_pc,
                   clockV, bufV,  wrV, connV, runV, emitV, fix_appended>>

\* the end of the pre-run block: open_fix_done, payload, guarded emit
RuleBFinish(fixed) ==
    LET payload == PatchOpen(SubSeq(live_bars, 1, 2), 1, fixed)
        bar_ts  == payload[2].ts
    IN  /\ open_fix_done' = TRUE
        /\ fixed_open_price' = fixed
        /\ live_bars' = PatchOpen(live_bars, 1, fixed)
        /\ IF prerun_sent_for_bar_ts # bar_ts
              THEN /\ prerun_sent_for_bar_ts' = bar_ts
                   /\ Broadcast(Msg("prerun_ready", payload))
                   /\ emitting' = Msg("prerun_ready", payload)
                   /\ prerun_emitted' = prerun_emitted (+) SetToBag({bar_ts})
                   /\ tickEmits' = tickEmits + 1
                   /\ updpc' = "emitB"
                   /\ UNCHANGED run_emitted_max
              ELSE /\ UNCHANGED <<prerun_sent_for_bar_ts, connV, emitV>>
                   /\ updpc' = "ruleC"
        /\ UNCHANGED <<collected_trades, last_fix_bar_ts, history_download_complete>>

\* Rule B
UpdRuleB ==
    /\ updpc = "ruleB"
    /\ IF ~RuleBCond(live_bars, file_exists, open_fix_done, now)
          THEN /\ updpc' = "ruleC"
               /\ UNCHANGED <<bufV, lockV, updV, fileV, connV, emitV, ruleb, cache_src>>
          ELSE IF ~history_download_complete
          THEN /\ Release
               /\ updpc' = "sleep"
               /\ UNCHANGED <<bufV, updV, fileV, connV, emitV, ruleb, cache_src>>
          ELSE IF ~first_fetch_after_download_done
          THEN /\ updpc' = "fetch"
               /\ UNCHANGED <<bufV, lockV, updV, fileV, connV, emitV, ruleb, cache_src>>
          ELSE /\ file' = fix_last_open_if_needed(file).file
               /\ cache_src' = IF fix_last_open_if_needed(file).fixed > 0
                                  THEN SyncCache(cache_src,
                                                 fix_last_open_if_needed(file).file, 1)
                                  ELSE cache_src
               /\ RuleBFinish(fix_last_open_if_needed(file).fixed)
               /\ ruleb' = "fix"
               /\ UNCHANGED <<lockV, first_fetch_after_download_done, file_exists>>
    /\ UNCHANGED <<bar_sent, faultV, scriptV, streamV, keepV, tradeV, hashV, cache_file, cache_dst, cache_pc, clockV, pending_prerun_event,  wrV, runV, fix_appended>>

\* Rule B, first pre-run after the download: fetch_and_update_ohlcv_data returns
UpdFetchDone ==
    /\ updpc = "fetch"
    /\ \/ file' = file /\ UNCHANGED cache_src
       \/ \E p \in market :
             LET res == FetchedCandles(file, now, p)
             IN  /\ file' = update_ohlcv_data(file, res).file
                 /\ cache_src' = SyncCache(cache_src, update_ohlcv_data(file, res).file,
                                           Len(res))
    /\ first_fetch_after_download_done' = TRUE
    /\ RuleBFinish(fixed_open_price)
    /\ ruleb' = "fetch"
    /\ UNCHANGED <<bar_sent, faultV, scriptV, streamV, keepV, tradeV, hashV, cache_file, cache_dst, cache_pc, clockV, pending_prerun_event, lockV,  file_exists,
                   wrV, runV, fix_appended>>

UpdEmitBDone ==
    /\ updpc = "emitB"
    /\ updpc' = "ruleC"
    /\ emitting' = NoMsg
    /\ UNCHANGED <<auxV, clockV, bufV, pending_prerun_event, lockV,  updV,
                   fileV, wrV, connV, runV, prerun_emitted, run_emitted_max,
                   tickEmits, fix_appended>>

\* the reset at the end of the rollover block
RuleCReset ==
    /\ fixed_open_price' = 0
    /\ open_fix_done' = FALSE
    /\ prerun_sent_for_bar_ts' = 0
    /\ ruleb' = "none"
    /\ UNCHANGED <<history_download_complete, first_fetch_after_download_done>>

\* Rule C: trim the buffer and start update_ohlcv_data
UpdRuleC ==
    /\ updpc = "ruleC"
    /\ IF ~RuleCCond(live_bars, file_exists)
          THEN /\ Release
               /\ updpc' = "sleep"
               /\ UNCHANGED <<live_bars, wrV>>
          ELSE IF ~history_download_complete
          THEN /\ live_bars' = RuleCKeep(live_bars)
               /\ Release
               /\ updpc' = "sleep"
               /\ UNCHANGED wrV
          ELSE /\ live_bars' = PatchOpen(RuleCKeep(live_bars), 1, fixed_open_price)
               /\ wq' = PatchOpen(RuleCKeep(live_bars), 1, fixed_open_price)
               /\ wlast' = [ts |-> Last(file).ts, o |-> Last(file).o]
               /\ wpre' = file
               /\ winc' = 0 /\ worig' = 0
               /\ wphase' = "seek"
               /\ updpc' = "cwrite"
               /\ UNCHANGED lockV
    /\ UNCHANGED <<auxV, clockV, collected_trades, last_fix_bar_ts, pending_prerun_event,
                    updV, fileV, connV, runV, emitV, fix_appended>>

\* update_ohlcv_data, one candle: seek_to_timestamp and truncate
UpdWriteSeek ==
    /\ updpc = "cwrite" /\ wphase = "seek"
    /\ worig' = Len(file)
    /\ file' = SeekTruncate(file, ToSec(Head(wq).ts))
    /\ wphase' = "write"
    /\ UNCHANGED <<auxV, clockV, bufV, pending_prerun_event, lockV,  updpc,
                   updV, file_exists, wq, winc, wlast, wpre, connV, runV, emitV,
                   fix_appended>>

\* update_ohlcv_data, one candle: write; after the last candle the block
\* goes on to the emit (incremented_size > 0) or to the reset
UpdWriteRecord ==
    /\ updpc = "cwrite" /\ wphase = "write"
    /\ LET g   == WriteRecord(file, CandleRecord(Head(wq), wlast.ts, wlast.o))
           inc == winc + Len(g) - worig
       IN  /\ file' = g
           /\ IF Tail(wq) # <<>>
                 THEN /\ wphase' = "seek"
                      /\ wq' = Tail(wq)
                      /\ winc' = inc
                      /\ UNCHANGED <<updpc, updV, lockV, connV, emitV, worig,
                                     wlast, wpre, ruleb>>
                 ELSE /\ wphase' = "none" /\ wq' = <<>> /\ winc' = 0 /\ worig' = 0
                      /\ wlast' = NoWLast /\ wpre' = <<>>
                      /\ IF EmitsRunReady(inc)
                            THEN /\ Broadcast(Msg("run_ready", live_bars))
                                 /\ emitting' = Msg("run_ready", live_bars)
                                 /\ run_emitted_max' =
                                       IF live_bars[2].ts > run_emitted_max
                                           THEN live_bars[2].ts ELSE run_emitted_max
                                 /\ tickEmits' = tickEmits + 1
                                 /\ updpc' = "emitC"
                                 /\ UNCHANGED <<updV, lockV, prerun_emitted, ruleb>>
                            ELSE /\ RuleCReset
                                 /\ Release
                                 /\ updpc' = "sleep"
                                 /\ UNCHANGED <<connV, emitV>>
    /\ UNCHANGED <<bar_sent, faultV, scriptV, streamV, keepV, tradeV, hashV, cacheV, clockV, bufV,
                   pending_prerun_event, file_exists, runV, fix_appended>>

UpdEmitCDone ==
    /\ updpc = "emitC"
    /\ RuleCReset
    /\ Release
    /\ updpc' = "sleep"
    /\ emitting' = NoMsg
    /\ cache_src' = SyncCache(cache_src, file, 2)
    /\ UNCHANGED <<bar_sent, faultV, scriptV, streamV, keepV, tradeV, hashV, cache_file, cache_dst, cache_pc,
                   clockV, bufV, pending_prerun_event, fileV, wrV,
                   connV, runV, prerun_emitted, run_emitted_max, tickEmits,
                   fix_appended>>

(***************************************************************************)
(* ws_endpoint: one handler per connection.                                *)
(***************************************************************************)
PendingEvent == Msg("prerun_ready_after_history_download", <<>>)

\* "if state.pending_prerun_event is not None" of the block run on connect
OnConnectSends_Never(pending) == FALSE

OnConnectSends(pending) == pending

\* the value the ACK handler leaves in state.pending_prerun_event
AfterAck(pending) == FALSE

\* ws_manager.connect registers the connection, then the handler asks for the lock
\* sent: what the client sends as soon as the connection is open
ConnectCore(c, sent) ==
    /\ ~cl[c] /\ hpc[c] = "none" /\ DIdle
    /\ cl' = [cl EXCEPT ![c] = TRUE]
    /\ pendSince' = [pendSince EXCEPT ![c] = pending_prerun_event]
    /\ first' = [first EXCEPT ![c] = "none"]
    /\ IF c = RunnerConn THEN inbox' = <<>> /\ out' = sent
                         ELSE UNCHANGED <<inbox, out>>
    /\ IF LockFree
          THEN IF OnConnectSends(pending_prerun_event)
                  THEN Acquire(c) /\ hpc' = [hpc EXCEPT ![c] = "sendpend"]
                  ELSE UNCHANGED lockV /\ hpc' = [hpc EXCEPT ![c] = "recv"]
          ELSE Enqueue(c) /\ hpc' = [hpc EXCEPT ![c] = "lockwait"]

Connect(c) ==
    /\ ConnectCore(c, <<>>)
    /\ UNCHANGED <<auxV, clockV, bufV, pending_prerun_event,  updpc, updV,
                   fileV, wrV, runV, emitV, fix_appended>>

HGranted(c) ==
    /\ hpc[c] = "lockwait" /\ lock = c /\ DIdle
    /\ IF OnConnectSends(pending_prerun_event)
          THEN UNCHANGED lockV /\ hpc' = [hpc EXCEPT ![c] = "sendpend"]
          ELSE Release /\ hpc' = [hpc EXCEPT ![c] = "recv"]
    /\ UNCHANGED <<auxV, clockV, bufV, pending_prerun_event,  updpc, updV,
                   fileV, wrV, cl, inbox, out, first, pendSince, runV, emitV,
                   fix_appended>>

\* ws.send_json(state.pending_prerun_event) returns (or raises, client gone)
HSendDone(c) ==
    /\ hpc[c] = "sendpend" /\ DIdle
    /\ inbox' = IF c = RunnerConn /\ cl[c] THEN Append(inbox, PendingEvent) ELSE inbox
    /\ first' = [first EXCEPT ![c] =
                    IF cl[c] /\ pendSince[c] /\ first[c] = "none"
                        THEN PendingEvent.type ELSE first[c]]
    /\ Release
    /\ hpc' = [hpc EXCEPT ![c] = "recv"]
    /\ UNCHANGED <<auxV, clockV, bufV, pending_prerun_event,  updpc, updV,
                   fileV, wrV, cl, out, pendSince, runV, emitV, fix_appended>>

ClearPending ==
    /\ pending_prerun_event' =
          IF pending_prerun_event THEN AfterAck(pending_prerun_event)
          ELSE pending_prerun_event
    /\ pendSince' = [c \in Conns |-> FALSE]

\* receive loop: the runner's ack_prerun_ready_after_history_download
HRecvAck(c) ==
    /\ c = RunnerConn
    /\ hpc[c] = "recv" /\ out # <<>> /\ DIdle
    /\ Head(out) = "ack"
    /\ out' = Tail(out)
    /\ IF LockFree
          THEN /\ ClearPending
               /\ UNCHANGED <<lockV, hpc>>
          ELSE /\ Enqueue(c)
               /\ hpc' = [hpc EXCEPT ![c] = "ackwait"]
               /\ UNCHANGED <<pending_prerun_event, pendSince>>
    /\ UNCHANGED <<auxV, clockV, bufV,  updpc, updV, fileV, wrV,
                   cl, inbox, first, runV, emitV, fix_appended>>

HAckGranted(c) ==
    /\ hpc[c] = "ackwait" /\ lock = c /\ DIdle
    /\ ClearPending
    /\ Release
    /\ hpc' = [hpc EXCEPT ![c] = "recv"]
    /\ UNCHANGED <<auxV, clockV, bufV,  updpc, updV, fileV, wrV,
                   cl, inbox, out, first, runV, emitV, fix_appended>>

\* receive_text raises WebSocketDisconnect: ws_manager.disconnect
HClose(c) ==
    /\ hpc[c] = "recv" /\ ~cl[c] /\ DIdle
    /\ c = RunnerConn => out = <<>>
    /\ hpc' = [hpc EXCEPT ![c] = "none"]
    /\ first' = [first EXCEPT ![c] = "none"]
    /\ pendSince' = [pendSince EXCEPT ![c] = FALSE]
    /\ UNCHANGED <<auxV, clockV, bufV, pending_prerun_event, lockV,  updpc,
                   updV, fileV, wrV, cl, inbox, out, runV, emitV, fix_appended>>

\* the client side of the connection goes away; what was in flight to it is lost
Disconnect(c) ==
    /\ cl[c]
    /\ cl' = [cl EXCEPT ![c] = FALSE]
    /\ inbox' = IF c = RunnerConn THEN <<>> ELSE inbox
    /\ UNCHANGED <<auxV, clockV, bufV, pending_prerun_event, lockV,  updpc,
                   updV, fileV, wrV, hpc, out, first, pendSince, runV, emitV,
                   fix_appended>>

(***************************************************************************)
(* Runner: the handler of one received lifecycle message.                  *)
(***************************************************************************)
\* the file that the rewrite in progress will leave
FinalFile ==
    IF wphase = "write"
        THEN UpdateLoop(WriteRecord(file, CandleRecord(Head(wq), wlast.ts, wlast.o)),
                        Tail(wq), wlast.ts, wlast.o, 0).file
        ELSE UpdateLoop(file, wq, wlast.ts, wlast.o, 0).file

\* the canonical file is between the states before and after a Rule C rewrite
MidRewrite == updpc = "cwrite" /\ file # wpre /\ file # FinalFile

\* prerun_ready and prerun_ready_after_history_download
RPrerun(m) ==
    /\ out' = IF m.type = "prerun_ready_after_history_download"
                 THEN Append(out, "ack") ELSE out
    /\ IF ~file_exists \/ DuplicatePrerun(rctx)
          THEN /\ UNCHANGED rctx
               /\ rlast' = [type |-> m.type, inc |-> 0, torn |-> FALSE,
                            had_ctx |-> rctx.live] @@ NoSteps
          ELSE /\ rlast' = [type |-> m.type, inc |-> 0, torn |-> MidRewrite,
                            had_ctx |-> FALSE,
                            steps |-> PrerunLoop(file, m.type).steps,
                            pre |-> PrerunLoop(file, m.type).pre,
                            seen |-> <<>>, gaps |-> GapCount(file), queued |-> 0]
               /\ rctx' = IF m.type = "prerun_ready"
                            THEN [live |-> TRUE,
                                  last_bar_index |-> LastBarIndexOf(file),
                                  last_new_bar_ts_sec |->
                                      IF Len(m.bars) = 2 THEN ToSec(m.bars[2].ts)
                                      ELSE Last(file).ts,
                                  stream |-> PrerunLoop(file, m.type).q,
                                  gaps |-> GapCount(file)]
                            ELSE NoCtx

\* run_ready
RRun(m) ==
    LET new_ts == ToSec(m.bars[2].ts)
        inc    == IncrementedSize(new_ts, rctx.last_new_bar_ts_sec)
        ran    == IF rctx.live /\ StepsOnIncrement(inc)
                     THEN StepToEnd(StreamAtRun(rctx.stream, m.bars))
                     ELSE [steps |-> 0, seen |-> <<>>]
    IN  /\ rlast' = [type |-> m.type,
                     inc |-> IF rctx.live THEN inc ELSE 0,
                     torn |-> FALSE, had_ctx |-> rctx.live,
                     steps |-> ran.steps, pre |-> <<>>, seen |-> ran.seen,
                     gaps |-> rctx.gaps, queued |-> 0]
        /\ rctx' = CtxAfterRun(rctx)
        /\ UNCHANGED out

RHandle ==
    /\ cl[RunnerConn] /\ inbox # <<>>
    /\ inbox' = Tail(inbox)
    /\ IF Head(inbox).type = "run_ready" THEN RRun(Head(inbox)) ELSE RPrerun(Head(inbox))
    /\ UNCHANGED <<auxV, clockV, bufV, pending_prerun_event, lockV,  updpc,
                   updV, fileV, wrV, cl, hpc, first, pendSince, emitV, fix_appended>>

(***************************************************************************)
(* Specifications.                                                         *)
(***************************************************************************)
\* the steps of file_update_loop
Updater ==
    \/ UpdWake
    \/ UpdDownloadDone
    \/ UpdRuleB
    \/ UpdFetchDone
    \/ UpdEmitBDone
    \/ UpdRuleC
    \/ UpdWriteSeek
    \/ UpdWriteRecord
    \/ UpdEmitCDone

\* the three loops of the data service; trades arrive on time or late, and
\* the updater, the only task to hold state.lock over an await, never waits
NextData ==
    \/ Tick
    \/ \E late \in Lateness : ColReceive(late)
    \/ FixPoll
    \/ Updater

SpecData == InitData /\ [][NextData]_vars

\* the data service with the runner as its only client
NextRun ==
    \/ Tick
    \/ ColReceive(0)
    \/ FixPoll
    \/ Updater
    \/ UpdGranted
    \/ Connect(RunnerConn)
    \/ HGranted(RunnerConn)
    \/ HSendDone(RunnerConn)
    \/ HRecvAck(RunnerConn)
    \/ HAckGranted(RunnerConn)
    \/ HClose(RunnerConn)
    \/ Disconnect(RunnerConn)
    \/ RHandle

SpecRun == InitRun /\ [][NextRun]_vars

\* the data service, the runner and a second client
Next ==
    \/ Tick
    \/ ColReceive(0)
    \/ FixPoll
    \/ Updater
    \/ UpdGranted
    \/ \E c \in Conns : Connect(c)
    \/ \E c \in Conns : HGranted(c)
    \/ \E c \in Conns : HSendDone(c)
    \/ \E c \in Conns : HRecvAck(c)
    \/ \E c \in Conns : HAckGranted(c)
    \/ \E c \in Conns : HClose(c)
    \/ \E c \in Conns : Disconnect(c)
    \/ RHandle

Spec == Init /\ [][Next]_vars

\* the data service under the scheduling of its event loop: a task that is
\* ready runs (the updater's steps), and the gap fixer, woken every second,
\* gets its turn whenever the loop is not blocked
FairData ==
    /\ WF_vars(UpdWake) /\ WF_vars(UpdDownloadDone)
    /\ WF_vars(UpdRuleB) /\ WF_vars(UpdFetchDone) /\ WF_vars(UpdEmitBDone)
    /\ WF_vars(UpdRuleC) /\ WF_vars(UpdWriteSeek) /\ WF_vars(UpdWriteRecord)
    /\ WF_vars(UpdEmitCDone)
    /\ SF_vars(FixPoll)

SpecDataFair == InitData /\ [][NextData]_vars /\ FairData

\* the three loops of the data service in a market that trades at two prices
InitFix == InitEnv(FixSteps, {1, 2})

NextFix ==
    \/ Tick
    \/ ColReceive(0)
    \/ FixPoll
    \/ Updater

SpecFix == InitFix /\ [][NextFix]_vars

(***************************************************************************)
(* The bar cache (ohlcv_cache.py).  A partition is the set of rows of one  *)
(* (provider, exchange, symbol, timeframe) key, at most one row per ts.    *)
(* SpecCache fills a partition K with upserts, exports it to a file and    *)
(* imports the file into an empty partition K'.                            *)
(***************************************************************************)
NotF32 == 16777217                        \* 2^24 + 1, not a 32-bit float
CacheTs == {ToSec(FirstBarTs) + k * Interval : k \in 0..(CacheSlots - 1)}
CacheRows == {Bar(ts, o, c, 1) : ts \in CacheTs, o \in {1, NotF32}, c \in {1, 2}}

\* a caller stores one bar in partition K
CacheUpsert ==
    /\ cache_pc = "open"
    /\ \E bar \in CacheRows : cache_src' = upsert_bars(cache_src, <<bar>>)
    /\ UNCHANGED <<streamV, keepV, tradeV, hashV, cache_file, cache_dst, cache_pc>>
    /\ UNCHANGED <<bar_sent, ruleb, faultV, scriptV, streamV, keepV, tradeV, hashV, coreV>>

CacheExport ==
    /\ cache_pc = "open"
    /\ cache_file' = export_to_ohlcv(cache_src)
    /\ cache_pc' = "exported"
    /\ UNCHANGED <<cache_src, cache_dst>>
    /\ UNCHANGED <<bar_sent, ruleb, faultV, scriptV, streamV, keepV, tradeV, hashV, coreV>>

CacheImport ==
    /\ cache_pc = "exported"
    /\ cache_dst' = import_from_ohlcv({}, cache_file)
    /\ cache_pc' = "imported"
    /\ UNCHANGED <<cache_src, cache_file>>
    /\ UNCHANGED <<bar_sent, ruleb, faultV, scriptV, streamV, keepV, tradeV, hashV, coreV>>

InitCache == InitEnv(0, Prices)
NextCache == CacheUpsert \/ CacheExport \/ CacheImport
SpecCache == InitCache /\ [][NextCache]_vars

(***************************************************************************)
(* The trade events of /ws: frames with one event or a batch, from either  *)
(* connection, each event stored once and broadcast.                       *)
(***************************************************************************)
TradeEvents == {"trade", "trade_close"}

\* ws_endpoint: "if event not in trades_history: trades_history.append(event)"
StoreTrade_Always(history, event) == Append(history, event)

StoreTrade(history, event) ==
    IF \E i \in 1..Len(history) : history[i] = event THEN history
    ELSE Append(history, event)

\* events = msg if isinstance(msg, list) else [msg]
TradeFrames ==
    {<<e>> : e \in TradeEvents} \cup {<<e, f>> : e \in TradeEvents, f \in TradeEvents}

\* ws_endpoint: a frame of trade events is received and parsed
TradeFrame(c) ==
    /\ t_batch[c] = <<>>
    /\ \E frame \in TradeFrames :
          /\ Len(t_recv) + Len(t_batch[RunnerConn]) + Len(t_batch[OtherConn])
                + Len(frame) <= MaxTrades
          /\ t_batch' = [t_batch EXCEPT ![c] = frame]
    /\ UNCHANGED <<t_recv, t_bcast>>
    /\ UNCHANGED <<bar_sent, ruleb, faultV, scriptV, streamV, keepV, hashV, cacheV, coreV>>

\* ws_endpoint: one event of the frame, up to the await of its broadcast
TradeEvent(c) ==
    /\ t_batch[c] # <<>>
    /\ trades_history' = StoreTrade(trades_history, Head(t_batch[c]))
    /\ t_recv' = Append(t_recv, Head(t_batch[c]))
    /\ t_bcast' = Append(t_bcast, Head(t_batch[c]))
    /\ t_batch' = [t_batch EXCEPT ![c] = Tail(t_batch[c])]
    /\ UNCHANGED <<script_hash, stored_hash, trade_event_queue, plotchar_event_queue,
                   r_plot_options, d_plot_options, reset_seen>>
    /\ UNCHANGED <<bar_sent, ruleb, faultV, streamV, keepV, hashV, cacheV, coreV>>

InitTrades == InitEnv(0, Prices)

NextTrades ==
    \/ TradeFrame(RunnerConn)
    \/ TradeFrame(OtherConn)
    \/ TradeEvent(RunnerConn)
    \/ TradeEvent(OtherConn)

SpecTrades == InitTrades /\ [][NextTrades]_vars

(***************************************************************************)
(* The bar stream: AppendableIterable with its feeding thread, the calls  *)
(* of the runner and the consumer that ScriptRunner iterates it with.     *)
(***************************************************************************)
\* __iter__: one pass through the condition loop and the pop
StreamTake ==
    IF s_q # <<>>
       THEN /\ s_got' = Append(s_got, Head(s_q))
            /\ s_q' = Tail(s_q)
            /\ s_pc' = "idle"
            /\ UNCHANGED s_waited
    ELSE IF s_closed \/ auto_close_when_empty
       THEN /\ s_pc' = "done"
            /\ UNCHANGED <<s_q, s_got, s_waited>>
       ELSE /\ s_pc' = "wait"
            /\ s_waited' = TRUE
            /\ UNCHANGED <<s_q, s_got>>

\* the consumer asks for the next item
StreamNext ==
    /\ s_pc = "idle"
    /\ StreamTake
    /\ UNCHANGED <<s_closed, s_base, s_err, s_in>>
    /\ UNCHANGED <<bar_sent, ruleb, faultV, scriptV, keepV, tradeV, hashV, cacheV, coreV>>

\* the consumer returns from _cv.wait() and tests the condition again
StreamWake ==
    /\ s_pc = "wait"
    /\ StreamTake
    /\ UNCHANGED <<s_closed, s_base, s_err, s_in>>
    /\ UNCHANGED <<bar_sent, ruleb, faultV, scriptV, keepV, tradeV, hashV, cacheV, coreV>>

\* _feed_base_iter: the thread feeds one item, or returns on a closed stream
StreamFeed ==
    /\ s_base # <<>>
    /\ IF s_closed
          THEN /\ s_base' = <<>>
               /\ UNCHANGED <<s_q, s_in>>
          ELSE /\ s_q' = Append(s_q, Head(s_base))
               /\ s_in' = Append(s_in, Head(s_base))
               /\ s_base' = Tail(s_base)
    /\ UNCHANGED <<s_closed, s_pc, s_err, s_got, s_waited>>
    /\ UNCHANGED <<bar_sent, ruleb, faultV, scriptV, keepV, tradeV, hashV, cacheV, coreV>>

\* append
StreamAppend ==
    /\ Len(s_in) + Len(s_base) < MaxStream
    /\ \E item \in StreamItems :
          IF s_closed
             THEN /\ s_err' = "RuntimeError"
                  /\ UNCHANGED <<s_q, s_in>>
             ELSE /\ s_q' = Append(s_q, item)
                  /\ s_in' = Append(s_in, item)
                  /\ UNCHANGED s_err
    /\ UNCHANGED <<s_closed, s_base, s_pc, s_got, s_waited>>
    /\ UNCHANGED <<bar_sent, ruleb, faultV, scriptV, keepV, tradeV, hashV, cacheV, coreV>>

\* replace_last
StreamReplaceLast ==
    /\ \E item \in StreamItems :
          IF s_q = <<>>
             THEN /\ s_err' = "IndexError"
                  /\ UNCHANGED <<s_q, s_in>>
             ELSE /\ s_q' = replace_last(s_q, item)
                  /\ s_in' = replace_last(s_in, item)
                  /\ UNCHANGED s_err
    /\ UNCHANGED <<s_closed, s_base, s_pc, s_got, s_waited>>
    /\ UNCHANGED <<bar_sent, ruleb, faultV, scriptV, keepV, tradeV, hashV, cacheV, coreV>>

\* close, which finish calls
StreamFinish ==
    /\ ~s_closed
    /\ s_closed' = TRUE
    /\ UNCHANGED <<s_q, s_base, s_pc, s_err, s_in, s_got, s_waited>>
    /\ UNCHANGED <<bar_sent, ruleb, faultV, scriptV, keepV, tradeV, hashV, cacheV, coreV>>

InitStream == InitEnv(0, Prices)

NextStream ==
    \/ StreamFeed
    \/ StreamAppend
    \/ StreamReplaceLast
    \/ StreamFinish
    \/ StreamNext
    \/ StreamWake

SpecStream == InitStream /\ [][NextStream]_vars

\* the step loop keeps asking and a waiting consumer is woken by notify
SpecStreamFair == SpecStream /\ WF_vars(StreamNext) /\ WF_vars(StreamWake)

(***************************************************************************)
(* Script edits and failures.  SpecOps runs the data service with the      *)
(* runner as its only client; the strategy file can be edited, the         *)
(* strategy produces trade, plotchar and plot events, and an iteration of  *)
(* a loop can raise.                                                       *)
(* Script hashes: 1 the script as persisted, 2 an edited script, 3 an      *)
(* edited script that cannot be prepared (no main, or main not decorated), *)
(* 0 a script that cannot be read, 4 no script.  A persisted hash of 0 is  *)
(* the empty hash file.                                                    *)
(* Messages of the runner to the data service: "ack", "reset_history",     *)
(* "script_modified", "trade" (a trade_entry or trade_close event),         *)
(* "plotchar" and                                                          *)
(* "plot_options".                                                         *)
(***************************************************************************)
BrokenScript == 3

\* compute_script_hashes of a strategy file that exists and cannot be read:
\* read_text and read_bytes raise, the file is skipped and the result is {}
Unreadable == 0

\* the strategy file is not there: SCRIPT_PATH.exists() is false
Missing == 4

ScriptHashes == {Unreadable, 1, 2, BrokenScript, Missing}

\* the hashes of the script and its imports; {} (the value of Unreadable)
\* when the script cannot be read or is not there
compute_script_hashes(h) == IF h = Missing THEN Unreadable ELSE h

\* import_script and ScriptRunner.__init__ raise for such a script
ImportFails(h) == h = BrokenScript \/ h = Unreadable \/ h = Missing

\* what the callbacks queue while the strategy steps
StrategyOutputs ==
    {[trades |-> <<>>, plotchars |-> <<>>, plots |-> {}],
     [trades |-> <<"trade">>, plotchars |-> <<"plotchar">>, plots |-> {"plot"}]}

\* the strategy file is edited on disk
ScriptEdit ==
    /\ script_hash = stored_hash /\ stored_hash = 1
    /\ \E h \in ScriptHashes \ {script_hash} : script_hash' = h
    /\ UNCHANGED <<bar_sent, ruleb, faultV, streamV, keepV, tradeV, hashV, cacheV, stored_hash, trade_event_queue,
                   plotchar_event_queue, r_plot_options, trades_history,
                   d_plot_options, reset_seen, coreV>>

\* the keepalive text of ws_loop, and a text frame that is not JSON as the
\* runner receives it
PingFrame == "ping"

NotJsonMsg == Msg("not_json", <<>>)

\* json.loads raises on the text received by /ws
JsonFails(frame) == frame = PingFrame

\* ws_endpoint: the JSONDecodeError of json.loads is taken by the inner
\* "except json.JSONDecodeError: pass", not by the handlers that disconnect
CaughtInner_Never == FALSE

CaughtInner == TRUE

\* current_hashes != previous_hashes
HashesDiffer == compute_script_hashes(script_hash) # stored_hash

\* ws_loop: "if SCRIPT_PATH and SCRIPT_PATH.exists()" before the hash check
ChecksOnConnect == script_hash # Missing /\ HashesDiffer

\* ws_loop: clear_local_state and write_script_hashes are the statements
\* after "await ws.send(reset_history)" in the try, and run unless it raised
AfterResetSend_Always(ok) == TRUE

AfterResetSend(ok) == ok

\* ws_loop: the connection opens; the hash check sends reset_history,
\* clears the local state and persists the hashes
ROpen ==
    /\ rloop = "running"
    /\ \E ok \in BOOLEAN :
          /\ ChecksOnConnect \/ ok
          /\ ConnectCore(RunnerConn, IF ChecksOnConnect /\ ok
                                        THEN <<"reset_history">> ELSE <<>>)
          /\ reset_try' = IF ~ChecksOnConnect THEN "none"
                          ELSE IF ok THEN "sent" ELSE "raised"
          /\ IF ChecksOnConnect /\ AfterResetSend(ok)
                THEN /\ trade_event_queue' = <<>>
                     /\ plotchar_event_queue' = <<>>
                     /\ r_plot_options' = {}
                     /\ stored_hash' = compute_script_hashes(script_hash)
                ELSE UNCHANGED <<trade_event_queue, plotchar_event_queue,
                                 r_plot_options, stored_hash>>
    /\ UNCHANGED <<bar_sent, ruleb, faultV, streamV, keepV, tradeV, cacheV, script_hash, trades_history,
                   d_plot_options, reset_seen, clockV, bufV, pending_prerun_event,
                   updpc, updV, fileV, wrV, runV, emitV, fix_appended>>

\* "await ws.send(json.dumps(list(queue))); queue.clear()" in a try of its
\* own: the queue is cleared unless its send raised
ClearQueue_Always(queue, ok) == <<>>

ClearQueue(queue, ok) == IF ok THEN <<>> ELSE queue

\* the three sends of a handler on one connection: once a send has raised
\* because the connection is gone, the later ones raise too
SendOutcomes ==
    {<<TRUE, TRUE, TRUE>>, <<TRUE, TRUE, FALSE>>, <<TRUE, FALSE, FALSE>>,
     <<FALSE, FALSE, FALSE>>}

\* the sends after the strategy stepped, each in a try of its own: the
\* trade events, the plotchar events, and plot_options, which is kept
SendResults(sent, tq, pq, po, okT, okP, okO) ==
    /\ out' = sent \o (IF okT THEN tq ELSE <<>>) \o (IF okP THEN pq ELSE <<>>)
                   \o (IF okO /\ po # {} THEN <<"plot_options">> ELSE <<>>)
    /\ trade_event_queue' = ClearQueue(tq, okT)
    /\ plotchar_event_queue' = ClearQueue(pq, okP)
    /\ r_plot_options' = po

\* the handler of prerun_ready and prerun_ready_after_history_download
RPrerunOps(m) ==
    LET acked == IF m.type = "prerun_ready_after_history_download"
                    THEN Append(out, "ack") ELSE out
        sent  == IF HashesDiffer THEN Append(acked, "script_modified") ELSE acked
        tq    == IF HashesDiffer THEN <<>> ELSE trade_event_queue
        pq    == IF HashesDiffer THEN <<>> ELSE plotchar_event_queue
        po    == IF HashesDiffer THEN {} ELSE r_plot_options
    IN  IF ~file_exists \/ DuplicatePrerun(rctx)
           THEN /\ out' = acked
                /\ rlast' = [type |-> m.type, inc |-> 0, torn |-> FALSE,
                            had_ctx |-> rctx.live] @@ NoSteps
                /\ UNCHANGED <<rctx, rloop, stored_hash, trade_event_queue,
                               plotchar_event_queue, r_plot_options>>
        ELSE IF ImportFails(script_hash)
           THEN \* ready_scrip_runner raises ImportError out of the receive loop
                /\ rloop' = "raised"
                /\ out' = sent
                /\ stored_hash' = compute_script_hashes(script_hash)
                /\ trade_event_queue' = tq
                /\ plotchar_event_queue' = pq
                /\ r_plot_options' = po
                /\ rlast' = [type |-> m.type, inc |-> 0, torn |-> FALSE,
                            had_ctx |-> rctx.live] @@ NoSteps
                /\ UNCHANGED rctx
           ELSE /\ \E res \in StrategyOutputs, ok \in SendOutcomes :
                      /\ SendResults(sent, tq \o res.trades, pq \o res.plotchars,
                                     po \cup res.plots, ok[1], ok[2], ok[3])
                      /\ rlast' = [type |-> m.type, inc |-> 0, torn |-> MidRewrite,
                                   had_ctx |-> FALSE,
                                   steps |-> PrerunLoop(file, m.type).steps,
                                   pre |-> PrerunLoop(file, m.type).pre,
                                   seen |-> <<>>, gaps |-> GapCount(file),
                                   queued |-> Len(res.trades)]
                /\ stored_hash' = compute_script_hashes(script_hash)
                /\ rctx' = IF m.type = "prerun_ready"
                             THEN [live |-> TRUE,
                                   last_bar_index |-> LastBarIndexOf(file),
                                   last_new_bar_ts_sec |->
                                       IF Len(m.bars) = 2 THEN ToSec(m.bars[2].ts)
                                       ELSE Last(file).ts,
                                   stream |-> PrerunLoop(file, m.type).q,
                                  gaps |-> GapCount(file)]
                             ELSE NoCtx
                /\ UNCHANGED rloop

\* the handler of run_ready
RRunOps(m) ==
    LET new_ts == ToSec(m.bars[2].ts)
        inc    == IncrementedSize(new_ts, rctx.last_new_bar_ts_sec)
        ran    == IF rctx.live /\ StepsOnIncrement(inc)
                     THEN StepToEnd(StreamAtRun(rctx.stream, m.bars))
                     ELSE [steps |-> 0, seen |-> <<>>]
        last(n) == [type |-> m.type,
                    inc |-> IF rctx.live THEN inc ELSE 0,
                    torn |-> FALSE, had_ctx |-> rctx.live,
                    steps |-> ran.steps, pre |-> <<>>, seen |-> ran.seen,
                    gaps |-> rctx.gaps, queued |-> n]
    IN  /\ rctx' = CtxAfterRun(rctx)
        /\ IF rctx.live /\ StepsOnIncrement(inc)
              THEN \E res \in StrategyOutputs, ok \in SendOutcomes :
                      /\ SendResults(out, trade_event_queue \o res.trades,
                                     plotchar_event_queue \o res.plotchars,
                                     r_plot_options \cup res.plots,
                                     ok[1], ok[2], ok[3])
                      /\ rlast' = last(Len(res.trades))
              ELSE /\ rlast' = last(0)
                   /\ UNCHANGED <<out, trade_event_queue, plotchar_event_queue,
                                  r_plot_options>>
        /\ UNCHANGED <<rloop, stored_hash>>

\* main: one message of the receive loop; a frame json.loads rejects is
\* left with "continue"
RHandleOps ==
    /\ rloop = "running"
    /\ cl[RunnerConn] /\ inbox # <<>>
    /\ inbox' = Tail(inbox)
    /\ IF Head(inbox) = NotJsonMsg
          THEN /\ r_dropped' = r_dropped + 1
               /\ UNCHANGED <<out, runV, rloop, stored_hash, trade_event_queue,
                              plotchar_event_queue, r_plot_options>>
          ELSE /\ IF Head(inbox).type = "run_ready" THEN RRunOps(Head(inbox))
                                                    ELSE RPrerunOps(Head(inbox))
               /\ UNCHANGED r_dropped
    /\ UNCHANGED <<bar_sent, ruleb, upd_err, col_restarts, streamV, d_dropped, tradeV, hashV, cacheV, script_hash,
                   trades_history, d_plot_options, reset_seen, clockV, bufV,
                   pending_prerun_event, lockV, updpc, updV, fileV, wrV, cl, hpc,
                   first, pendSince, emitV, fix_appended>>

\* ws_endpoint: the dispatch of a message other than the ACK; reset_history
\* and script_modified match no branch
HRecvEvent(c) ==
    /\ c = RunnerConn
    /\ hpc[c] = "recv" /\ out # <<>> /\ DIdle
    /\ Head(out) # "ack" /\ ~JsonFails(Head(out))
    /\ out' = Tail(out)
    /\ trades_history' =
          IF Head(out) = "trade" THEN StoreTrade(trades_history, Head(out))
          ELSE trades_history
    /\ d_plot_options' =
          IF Head(out) = "plot_options" THEN d_plot_options \cup {"plot"}
          ELSE d_plot_options
    /\ reset_seen' = (Head(out) = "reset_history")
    /\ UNCHANGED <<bar_sent, ruleb, faultV, streamV, keepV, tradeV, hashV, cacheV, script_hash, stored_hash,
                   trade_event_queue, plotchar_event_queue, r_plot_options,
                   clockV, bufV, pending_prerun_event, lockV, updpc, updV, fileV,
                   wrV, cl, hpc, inbox, first, pendSince, runV, emitV, fix_appended>>

\* the trade collector: watch_trades raises; the except clause closes the
\* client and makes a new one, and the loop goes on
ColRaise ==
    /\ DIdle
    /\ col_restarts < MaxRestarts
    /\ col_restarts' = col_restarts + 1
    /\ UNCHANGED <<bar_sent, ruleb, upd_err, rloop, scriptV, streamV, keepV, tradeV, hashV, cacheV, coreV>>

\* the file updater: a file or cache call of Rule B raises (the reader's
\* open in fetch_and_update_ohlcv_data, upsert_bars); nothing catches it,
\* 'async with' releases the lock and the task ends with the exception;
\* asyncio.gather passes it on to main(), which ends every task of the data
\* service (no action of the service is enabled once updpc = "raised")
UpdRaise ==
    /\ \/ updpc = "fetch"
       \/ /\ updpc = "ruleB"
          /\ RuleBCond(live_bars, file_exists, open_fix_done, now)
          /\ history_download_complete
    /\ Release
    /\ updpc' = "raised"
    /\ upd_err' = TRUE
    /\ UNCHANGED <<bar_sent, ruleb, rloop, col_restarts, scriptV, streamV, keepV, tradeV, hashV, cacheV, clockV,
                   bufV, pending_prerun_event, updV, fileV, wrV, connV, runV,
                   emitV, fix_appended>>

InitOps == InitEnv(OpsSteps, Prices)

NextOps ==
    \/ Tick
    \/ ColReceive(0)
    \/ ColRaise
    \/ Updater
    \/ UpdGranted
    \/ UpdRaise
    \/ HGranted(RunnerConn)
    \/ HSendDone(RunnerConn)
    \/ HRecvAck(RunnerConn)
    \/ HAckGranted(RunnerConn)
    \/ HRecvEvent(RunnerConn)
    \/ HClose(RunnerConn)
    \/ ROpen
    \/ ScriptEdit
    \/ Disconnect(RunnerConn)
    \/ RHandleOps

SpecOps == InitOps /\ [][NextOps]_vars

\* ws_loop: keepalive sends the text "ping" on the open connection
RPing ==
    /\ rloop = "running" /\ cl[RunnerConn]
    /\ d_dropped < MaxFrames
    /\ \A i \in 1..Len(out) : out[i] # PingFrame
    /\ out' = Append(out, PingFrame)
    /\ UNCHANGED <<auxV, clockV, bufV, pending_prerun_event, lockV, updpc, updV,
                   fileV, wrV, cl, hpc, inbox, first, pendSince, runV, emitV,
                   fix_appended>>

\* ws_endpoint: a received text on which json.loads raises
HRecvPing(c) ==
    /\ c = RunnerConn
    /\ hpc[c] = "recv" /\ out # <<>> /\ DIdle
    /\ JsonFails(Head(out))
    /\ out' = Tail(out)
    /\ d_dropped' = d_dropped + 1
    /\ IF CaughtInner
          THEN UNCHANGED <<cl, hpc, inbox, first, pendSince>>
          ELSE \* ws_manager.disconnect(ws) of the outer handlers
               /\ cl' = [cl EXCEPT ![c] = FALSE]
               /\ hpc' = [hpc EXCEPT ![c] = "none"]
               /\ inbox' = <<>>
               /\ first' = [first EXCEPT ![c] = "none"]
               /\ pendSince' = [pendSince EXCEPT ![c] = FALSE]
    /\ UNCHANGED <<bar_sent, ruleb, faultV, scriptV, streamV, r_dropped, tradeV, hashV, cacheV,
                   clockV, bufV, pending_prerun_event, lockV, updpc, updV, fileV,
                   wrV, runV, emitV, fix_appended>>

\* a text frame that is not JSON reaches the runner's receive loop
BusNoise ==
    /\ cl[RunnerConn]
    /\ r_dropped < MaxFrames
    /\ \A i \in 1..Len(inbox) : inbox[i] # NotJsonMsg
    /\ inbox' = Append(inbox, NotJsonMsg)
    /\ UNCHANGED <<auxV, clockV, bufV, pending_prerun_event, lockV, updpc, updV,
                   fileV, wrV, cl, hpc, out, first, pendSince, runV, emitV,
                   fix_appended>>

\* the bus with frames that are not JSON in both directions
InitKeep == InitEnv(OpsSteps, Prices)

NextKeep ==
    \/ Tick
    \/ ColReceive(0)
    \/ Updater
    \/ UpdGranted
    \/ ROpen
    \/ RPing
    \/ BusNoise
    \/ HGranted(RunnerConn)
    \/ HSendDone(RunnerConn)
    \/ HRecvAck(RunnerConn)
    \/ HAckGranted(RunnerConn)
    \/ HRecvEvent(RunnerConn)
    \/ HRecvPing(RunnerConn)
    \/ HClose(RunnerConn)
    \/ Disconnect(RunnerConn)
    \/ RHandleOps

SpecKeep == InitKeep /\ [][NextKeep]_vars

\* the data service and the runner, every task of the two event loops being
\* scheduled when it is ready; the connection is lost or not
InitStage == InitEnv(BusSteps, Prices)

FairStage ==
    /\ WF_vars(UpdWake) /\ WF_vars(UpdDownloadDone)
    /\ WF_vars(UpdRuleB) /\ WF_vars(UpdFetchDone) /\ WF_vars(UpdEmitBDone)
    /\ WF_vars(UpdRuleC) /\ WF_vars(UpdWriteSeek) /\ WF_vars(UpdWriteRecord)
    /\ WF_vars(UpdEmitCDone) /\ WF_vars(UpdGranted)
    /\ WF_vars(HGranted(RunnerConn)) /\ WF_vars(HSendDone(RunnerConn))
    /\ WF_vars(HRecvAck(RunnerConn)) /\ WF_vars(HAckGranted(RunnerConn))
    /\ WF_vars(RHandle)

SpecStage == InitStage /\ [][NextRun]_vars /\ FairStage

\* the data service and the runner with the strategy's results on the bus
InitStep == InitEnv(RunSteps, Prices)

NextStep ==
    \/ Tick
    \/ ColReceive(0)
    \/ Updater
    \/ UpdGranted
    \/ ROpen
    \/ HGranted(RunnerConn)
    \/ HSendDone(RunnerConn)
    \/ HRecvAck(RunnerConn)
    \/ HAckGranted(RunnerConn)
    \/ HRecvEvent(RunnerConn)
    \/ HClose(RunnerConn)
    \/ Disconnect(RunnerConn)
    \/ RHandleOps

SpecStep == InitStep /\ [][NextStep]_vars

(***************************************************************************)
(* Properties.                                                             *)
(***************************************************************************)
\* the open times of the bars within the horizon of the data service's clock
DataBarTimes == {k * tf_ms : k \in 1..((InitNow + DataSteps * ClockStepMs) \div tf_ms)}

HasBar(bars, ts) == \E i \in 1..Len(bars) : bars[i].ts = ts

\* the runner's receive loop takes a run_ready message
RunReadyHandled ==
    /\ cl[RunnerConn] /\ cl' = cl
    /\ inbox # <<>> /\ inbox' = Tail(inbox)
    /\ Head(inbox).type = "run_ready"

\* C1 (as amended): when the runner handles a run_ready, last_bar_index
\* advances by exactly one if a Run Context is live and the new bar is one
\* timeframe after the context's last new bar, and by nothing otherwise (no
\* Run Context: the message is skipped; another interval: an out-of-schedule
\* update); in every case no Run Context is live after the handler.
C1_RunStep ==
    [][RunReadyHandled =>
          /\ rlast'.type = "run_ready"
          /\ rlast'.inc =
                (IF /\ rctx.live
                    /\ ToSec(Head(inbox).bars[2].ts) - rctx.last_new_bar_ts_sec = Interval
                    THEN 1 ELSE 0)
          /\ rctx' = NoCtx]_vars

C1_Witness == rlast.type = "run_ready" /\ rlast.inc = 1

\* C1 (as stated): every run_ready the runner handles advances last_bar_index
\* by exactly one.
C1_ExactlyOnce == rlast.type = "run_ready" => rlast.inc = 1

\* C2: for each timestamp T at most one prerun_ready with new-bar ts T is emitted.
C2_NoDuplicatePrerun ==
    \A T \in BagToSet(prerun_emitted) : CopiesIn(T, prerun_emitted) <= 1

C2_Witness ==
    /\ Cardinality(BagToSet(prerun_emitted)) >= 2
    /\ emitting.type = "prerun_ready"

\* a connection handler leaves the block it runs on connect
PassesConnectBlock(c) ==
    \/ hpc[c] = "none" /\ hpc'[c] \in {"sendpend", "recv"}
    \/ hpc[c] = "lockwait" /\ hpc'[c] \in {"sendpend", "recv"}

\* the handler of c takes an ack_prerun_ready_after_history_download under the lock
AckHandled(c) ==
    \/ /\ c = RunnerConn /\ hpc[c] = "recv" /\ hpc'[c] = "recv"
       /\ out # <<>> /\ out' = Tail(out)
    \/ hpc[c] = "ackwait" /\ hpc'[c] = "recv"

\* C3: a handler that passes its connect block while an event is pending sends
\* it, the send puts the event on the connection of a client that is still
\* there, the ACK handler clears the event, and no other step clears it.
C3_PendingDelivery ==
    [][/\ \A c \in Conns :
             /\ (PassesConnectBlock(c) /\ pending_prerun_event)
                    => hpc'[c] = "sendpend"
             /\ (hpc[c] = "sendpend" /\ hpc'[c] = "recv" /\ c = RunnerConn /\ cl[c])
                    => inbox' = Append(inbox, PendingEvent)
             /\ AckHandled(c) => ~pending_prerun_event'
       /\ (pending_prerun_event /\ ~pending_prerun_event')
              => \E c \in Conns : AckHandled(c)]_vars

\* the event was sent to one connection and, still pending, to the other too
C3_Witness ==
    /\ pending_prerun_event
    /\ \A c \in Conns : cl[c] /\ hpc[c] = "recv" /\ first[c] = PendingEvent.type

\* C4: the first lifecycle message of a connection made while an event was
\* pending is the pending event.
C4_PendingFirst ==
    \A c \in Conns :
        (pendSince[c] /\ first[c] # "none") => first[c] = PendingEvent.type

\* C5: no prerun_ready with new-bar ts T is emitted once a run_ready with
\* new-bar ts >= T + timeframe has been emitted.
C5_NoPrerunAfterLaterRun ==
    emitting.type = "prerun_ready"
        => run_emitted_max < emitting.bars[2].ts + tf_ms

C5_Witness == emitting.type = "prerun_ready" /\ run_emitted_max > 0

\* C6: one iteration of the file updater passes at most one event to emit_event.
C6_OneEmitPerTick == tickEmits <= 1

C6_Witness ==
    /\ emitting.type = "run_ready" /\ tickEmits = 1
    /\ prerun_emitted # EmptyBag

\* C7: state.lock is not held while download_history or
\* fetch_and_update_ohlcv_data is in progress.
C7_NoLockAcrossProviderCalls == updpc \in {"download", "fetch"} => lock # "upd"

\* C8: the runner never reads the canonical file in a state between the
\* states before and after a Rule C rewrite.
C8_AtomicRewrite == ~rlast.torn

\* C9: for each timestamp X the gap fixer appends a bar with ts X at most once.
C9_GapFillOnce ==
    \A X \in BagToSet(fix_appended) : CopiesIn(X, fix_appended) <= 1

\* a bar of the gap fixer was replaced by the bar of later trades of its window
C9_Witness ==
    \E i \in 1..Len(live_bars) :
        /\ live_bars[i].ts \in BagToSet(fix_appended)
        /\ live_bars[i].v = 1

\* C10: once the buffer holds at least two bars, the last with ts L, and the
\* clock has passed L + timeframe + grace, the buffer comes to hold a bar
\* with ts L + timeframe, unless trades of a later window arrive first.
C10_GapFixerProgress ==
    \A L \in DataBarTimes :
        (/\ Len(live_bars) >= 2
         /\ Last(live_bars).ts = L
         /\ now >= L + tf_ms + grace_ms)
            ~> (\/ HasBar(live_bars, L + tf_ms)
                \/ (live_bars # <<>> /\ Last(live_bars).ts > L + tf_ms))

\* the gap fixer filled a second window after it had filled one
C10_Witness ==
    /\ Cardinality(BagToSet(fix_appended)) >= 2
    /\ last_fix_bar_ts = Last(live_bars).ts

\* C11: the ts of the `bar` messages the data service broadcasts never goes
\* back: every broadcast bar has a ts greater than or equal to that of the
\* bar broadcast before it, synthetic bars of the gap fixer in between or
\* not, and a bar is broadcast only while it is the newest bar of the
\* buffer, so that an equal ts is a refinement of the bar in progress.
C11_BarsMonotone ==
    [][/\ bar_sent'.time >= bar_sent.time
       /\ bar_sent' # bar_sent
              => bar_sent'.time = ToSec(Last(live_bars').ts)]_vars

\* a bar was broadcast for a window later than one the gap fixer had filled
C11_Witness ==
    \E X \in BagToSet(fix_appended) : bar_sent.time > ToSec(X)

\* C12: whenever the live buffer holds at least two bars, its timestamps are
\* strictly increasing and the last bar is at least one timeframe after the
\* bar before it.
C12_LiveBufferOrdered ==
    Len(live_bars) >= 2 =>
        /\ \A i \in 1..(Len(live_bars) - 1) : live_bars[i].ts < live_bars[i + 1].ts
        /\ Last(live_bars).ts >= live_bars[Len(live_bars) - 1].ts + tf_ms

\* the buffer after a rollover dropped its oldest bar, holding a bar of the
\* gap fixer and, after it, a bar of the collector
C12_Witness ==
    /\ run_emitted_max > 0
    /\ Len(live_bars) >= 2
    /\ live_bars[Len(live_bars) - 1].ts = last_fix_bar_ts
    /\ Last(live_bars).v = 1

\* C13: the records of the canonical file have strictly increasing ts and
\* consecutive records are exactly one timeframe apart, after every write of
\* the file updater.
C13_FileRegular ==
    \A i \in 1..(Len(file) - 1) : file[i + 1].ts = file[i].ts + Interval

\* a rollover wrote its bars past a boundary that neither the buffer nor the
\* exchange's candles had covered
C13_Witness ==
    /\ run_emitted_max > 0
    /\ \E i \in 1..Len(file) : file[i].v = -1

\* the pre-run block has run and emitted prerun_ready, and the rollover that
\* follows it has not started to rewrite the file
RuleBFired ==
    /\ open_fix_done /\ prerun_sent_for_bar_ts # 0
    /\ updpc \notin {"cwrite", "emitC"}
    /\ Len(file) >= 2

\* C14 (as amended): when the pre-run block has run through its open-fix
\* branch (every pre-run but the first after a start or a history download),
\* the file's last bar has an open equal to the close of the bar before it.
C14_OpenRepairedByFix ==
    (RuleBFired /\ ruleb = "fix") => Last(file).o = file[Len(file) - 1].c

\* the open-fix branch rewrote the open of the file's last bar
C14_Witness == RuleBFired /\ ruleb = "fix" /\ fixed_open_price > 0

\* C14 (as stated): whenever the pre-run block has run, the first time after
\* a history download or later, the file's last bar has an open equal to the
\* close of the bar before it.
C14_OpenRepaired == RuleBFired => Last(file).o = file[Len(file) - 1].c

\* C15: when the pre-run block rewrote the open of the file's last bar B1 to
\* the close of B0 and the next rollover emits run_ready for two bars, the
\* confirmed bar of the payload is B1 with the patched open, the new bar is
\* B2, and the file ends with B0, B1 with open = B0.close, B2.
C15_PatchedRollover ==
    (/\ updpc = "emitC" /\ emitting.type = "run_ready"
     /\ ruleb = "fix" /\ fixed_open_price > 0
     /\ Len(emitting.bars) = 2)
        => /\ emitting.bars[1].o = fixed_open_price
           /\ Len(file) >= 3
           /\ file[Len(file) - 2].c = fixed_open_price
           /\ file[Len(file) - 1] =
                  Bar(ToSec(emitting.bars[1].ts), fixed_open_price,
                      emitting.bars[1].c, emitting.bars[1].v)
           /\ Last(file) =
                  Bar(ToSec(emitting.bars[2].ts), emitting.bars[2].o,
                      emitting.bars[2].c, emitting.bars[2].v)
           /\ emitting.bars[2].ts = emitting.bars[1].ts + tf_ms

\* run_ready goes out for a confirmed bar whose open the pre-run had changed
C15_Witness ==
    /\ updpc = "emitC" /\ emitting.type = "run_ready"
    /\ ruleb = "fix" /\ fixed_open_price > 0
    /\ Len(emitting.bars) = 2
    /\ emitting.bars[1].c # fixed_open_price

\* the runner's receive loop takes a message of the given type
Handled(type) ==
    /\ cl[RunnerConn] /\ cl' = cl
    /\ inbox # <<>> /\ inbox' = Tail(inbox)
    /\ Head(inbox).type = type

\* C16 (as amended): the run_ready handler leaves the runner without a Run
\* Context, incremented or not; the handler of
\* prerun_ready_after_history_download creates no Run Context and leaves one
\* that an earlier prerun_ready created as it is; a Run Context comes into
\* being only in the prerun_ready handler and only when there is none, so
\* that the context of one prerun_ready is taken by at most one run_ready.
C16_CtxLifecycle ==
    [][/\ Handled("run_ready") => ~rctx'.live
       /\ Handled("prerun_ready_after_history_download") => rctx' = rctx
       /\ (rctx' # rctx /\ rctx'.live)
              => (~rctx.live /\ Handled("prerun_ready"))]_vars

\* the pending event was handled while the context of a prerun_ready waited
\* for its run_ready
C16_Witness ==
    /\ rlast.type = "prerun_ready_after_history_download"
    /\ rctx.live

\* C16 (as stated): neither the run_ready handler nor the handler of
\* prerun_ready_after_history_download leaves a Run Context, and a Run
\* Context comes into being only in the prerun_ready handler.
C16_NoCtxReuse ==
    [][/\ Handled("run_ready") => ~rctx'.live
       /\ Handled("prerun_ready_after_history_download") => ~rctx'.live
       /\ (rctx' # rctx /\ rctx'.live)
              => (~rctx.live /\ Handled("prerun_ready"))]_vars

\* rows one timeframe apart, none missing in between
Contiguous(K) ==
    \A r \in K : (\A q \in K : r.ts <= q.ts) \/ (\E q \in K : q.ts = r.ts - Interval)

\* rows whose values a file record holds exactly
Representable(K) == \A r \in K : PackRecord(r) = r

\* C17 (as amended): for a partition K whose rows are one timeframe apart
\* with none missing and whose values are 32-bit floats, exporting K to a
\* file and importing the file into an empty partition K' makes the
\* ascending range scan of K' equal, row by row, to that of K.
C17_RoundTripRegular ==
    (cache_pc = "imported" /\ Contiguous(cache_src) /\ Representable(cache_src))
        => RangeScan(cache_dst) = RangeScan(cache_src)

\* a round trip of three or more rows: more than one batch of the import
C17_Witness ==
    /\ cache_pc = "imported"
    /\ Contiguous(cache_src) /\ Representable(cache_src)
    /\ Cardinality(cache_src) > BatchSize
    /\ \E r \in cache_src : r.c = 2

\* C17 (as stated): for any content of K, exporting K to a file and importing
\* the file into an empty partition K' makes the ascending range scan of K'
\* equal, row by row, to that of K.
C17_RoundTrip ==
    cache_pc = "imported" => RangeScan(cache_dst) = RangeScan(cache_src)

\* C18: an error while preparing a run (the script cannot be imported, has
\* no main, or main is not decorated) does not terminate the runner's
\* receive loop: the runner goes on handling lifecycle events.
C18_PrepareErrorNotFatal == ImportFails(script_hash) => rloop = "running"

\* C19: no iteration's failure terminates its task: the file updater (and
\* with it the data service) is still running whatever an iteration raised.
C19_LoopsSurvive == ~upd_err /\ updpc # "raised"

\* C20: when the data service has just dispatched reset_history, its trade
\* history and its plot-option history are empty.
C20_HistoriesReset == reset_seen => (trades_history = <<>> /\ d_plot_options = {})

\* C21: once Rule C has trimmed the live buffer (the rewrite of the file is
\* under way or run_ready is being emitted) the buffer holds exactly two
\* bars, and the run_ready payload is that pair.
C21_KeepsLastTwo ==
    /\ updpc \in {"cwrite", "emitC"} => Len(live_bars) = 2
    /\ emitting.type = "run_ready" => Len(emitting.bars) = 2

C23_PrerunGuard ==
    [][/\ (emitting'.type = "prerun_ready" /\ emitting # emitting')
            => /\ lock = "upd"
               /\ Len(live_bars) = 2
               /\ file_exists
               /\ ~open_fix_done
               /\ now >= live_bars[2].ts + tf_ms \div 2
               /\ history_download_complete
               /\ Len(emitting'.bars) = 2
               /\ emitting'.bars[2] = live_bars[2]
       /\ (emitting'.type = "run_ready" /\ emitting # emitting')
            => (lock = "upd" /\ history_download_complete)]_vars

\* prerun_ready goes out at the very instant the half of the timeframe is
\* reached
C23_Witness ==
    /\ emitting.type = "prerun_ready"
    /\ lock = "upd"
    /\ now = live_bars[2].ts + pre_run_script_time

\* C24: a tick whose history download fails leaves no canonical file,
\* stages no pending event, leaves history_download_complete, open_fix_done,
\* fixed_open_price and prerun_sent_for_bar_ts as they were and emits
\* nothing; the next tick that gets the lock downloads again; a tick whose
\* download succeeds stages the pending event and sets
\* history_download_complete.
C24_DownloadOutcome ==
    [][/\ (updpc = "download" /\ updpc' = "sleep")
            => /\ ~file_exists' /\ file' = <<>>
               /\ pending_prerun_event' = pending_prerun_event
               /\ history_download_complete' = history_download_complete
               /\ open_fix_done' = open_fix_done
               /\ fixed_open_price' = fixed_open_price
               /\ prerun_sent_for_bar_ts' = prerun_sent_for_bar_ts
               /\ emitting' = NoMsg /\ tickEmits' = 0
               /\ inbox' = inbox
       /\ (ruleb = "dlfail" /\ updpc \in {"sleep", "wait"}
                /\ updpc' \notin {"sleep", "wait"})
            => updpc' = "download"
       /\ (updpc = "download" /\ updpc' \notin {"download", "sleep"})
            => (file_exists' /\ pending_prerun_event'
                    /\ history_download_complete')]_vars

\* the download is tried again after a failed one
C24_Witness == ruleb = "dlfail" /\ updpc = "download" /\ lock = "upd"

\* C25: a run_ready handled with a live context whose new bar is not exactly
\* one timeframe after last_new_bar_ts increments nothing, steps nothing and
\* sends nothing; a difference of exactly one timeframe increments by one;
\* either way the context is gone when the handler ends
C25_OutOfSchedule ==
    [][(Handled("run_ready") /\ rctx.live) =>
          /\ IF (ToSec(Head(inbox).bars[2].ts) - rctx.last_new_bar_ts_sec) * 1000
                    = parse_timeframe_to_ms(Timeframe)
                THEN rlast'.inc = 1
                ELSE /\ rlast'.inc = 0 /\ rlast'.steps = 0
                     /\ out' = out
                     /\ trade_event_queue' = trade_event_queue
                     /\ plotchar_event_queue' = plotchar_event_queue
                     /\ r_plot_options' = r_plot_options
          /\ ~rctx'.live]_vars

\* a run_ready was handled out of schedule by a runner that held a context
C25_Witness ==
    /\ rlast.type = "run_ready" /\ rlast.had_ctx /\ rlast.inc = 0
    /\ rlast.steps = 0 /\ ~rctx.live

\* C26: a pre-run that builds a runner steps effective_size - 1 times with
\* pre_run = TRUE (effective_size: the records of the file with volume >= 0);
\* after a download it steps once more, and only that last step runs with
\* pre_run = FALSE
C26_PrerunStepCount ==
    [][\A t \in {"prerun_ready", "prerun_ready_after_history_download"} :
          (Handled(t) /\ file_exists /\ ~rctx.live) =>
              LET eff == Len(file) - GapCount(file)
                  n   == IF t = "prerun_ready" THEN eff - 1 ELSE eff
              IN  /\ rlast'.steps = n
                  /\ Len(rlast'.pre) = n
                  /\ \A i \in 1..n :
                        rlast'.pre[i] = ~(t = "prerun_ready_after_history_download" /\ i = n)]_vars

C28_Idempotent ==
    [][((Handled("prerun_ready") /\ rctx.live) \/ (Handled("run_ready") /\ ~rctx.live)) =>
          /\ rctx' = rctx
          /\ rlast'.steps = 0
          /\ out' = out
          /\ trade_event_queue' = trade_event_queue
          /\ plotchar_event_queue' = plotchar_event_queue
          /\ r_plot_options' = r_plot_options
          /\ stored_hash' = stored_hash
          /\ rloop' = rloop]_vars

\* a prerun_ready was handled by a runner that still held a context
C28_Witness == rlast.type = "prerun_ready" /\ rlast.had_ctx /\ rctx.live

\* C29: the stream yields what was enqueued, in order; a consumer on an
\* empty stream that is not finished yields nothing, does not terminate and
\* stays in its wait; it terminates only on a finished and drained stream;
\* and once finish was called the consumer terminates
C29_StreamSemantics ==
    /\ [](s_got \o s_q = s_in)
    /\ [](s_pc = "done" => (s_closed /\ s_q = <<>>))
    /\ [][(s_q = <<>> /\ ~s_closed) =>
             /\ s_got' = s_got /\ s_pc' # "done"
             /\ (s_pc = "wait" => s_pc' = "wait")]_vars
    /\ (s_closed ~> s_pc = "done")

\* the consumer waited on nothing, and later terminated having yielded an
\* appended item behind the preloaded ones
C29_Witness ==
    /\ s_waited /\ s_pc = "done" /\ s_closed /\ s_q = <<>>
    /\ Len(s_got) = MaxStream /\ s_got[1] = 1 /\ s_got[MaxStream] \in StreamItems

\* C30: a frame that is not JSON is dropped: the /ws handler changes none of
\* the data service's state, sends nothing and keeps the connection and its
\* place in the receive loop; the runner changes none of its state, sends
\* nothing and keeps the connection and its loop
C30_NonJsonDropped ==
    [][/\ (d_dropped' # d_dropped) =>
             UNCHANGED <<cl, hpc, inbox, first, pendSince, bar_sent, bufV,
                         pending_prerun_event, lockV, updpc, updV, fileV, wrV,
                         emitV, trades_history, d_plot_options, reset_seen,
                         cacheV, upd_err>>
       /\ (r_dropped' # r_dropped) =>
             UNCHANGED <<cl, out, rctx, rlast, rloop, stored_hash,
                         trade_event_queue, plotchar_event_queue,
                         r_plot_options>>]_vars

\* both sides dropped a frame and the connection is still served
C30_Witness ==
    /\ d_dropped = 1 /\ r_dropped = 1
    /\ cl[RunnerConn] /\ hpc[RunnerConn] = "recv" /\ rloop = "running"

\* C31: with a strategy file that cannot be read, the hash check at connect
\* and the one in the pre-run handler send neither reset_history nor
\* script_modified and leave the queues and the persisted hashes as they were
C31_HashErrorNoChange ==
    [][(/\ script_hash = Unreadable
        /\ \/ (~cl[RunnerConn] /\ cl'[RunnerConn])
           \/ \E t \in {"prerun_ready", "prerun_ready_after_history_download"} :
                 Handled(t) /\ file_exists /\ ~rctx.live) =>
          /\ stored_hash' = stored_hash
          /\ trade_event_queue' = trade_event_queue
          /\ plotchar_event_queue' = plotchar_event_queue
          /\ r_plot_options' = r_plot_options
          /\ \A i \in 1..Len(out') :
                out'[i] \in {"reset_history", "script_modified"} =>
                    (i <= Len(out) /\ out[i] = out'[i])]_vars

\* C32: the runner reconnects for ever: in no reachable state has ws_loop,
\* which makes the attempts and waits between them, stopped
C32_NeverStopsConnecting == rloop # "raised"

\* C33: when run_ready is emitted, a prerun_ready whose new bar is the
\* confirmed bar of the run_ready has been emitted before
C33_PrerunBeforeRun ==
    [][(emitting'.type = "run_ready" /\ emitting' # emitting) =>
          BagIn(emitting'.bars[1].ts, prerun_emitted)]_vars

\* C34: the confirmed bar of an emitted run_ready has the open of the record
\* the rewrite left in the canonical file for its ts
C34_ConfirmedOpenMatchesFile ==
    [][(emitting'.type = "run_ready" /\ emitting' # emitting) =>
          \A i \in 1..Len(file') :
              file'[i].ts = ToSec(emitting'.bars[1].ts) =>
                  file'[i].o = emitting'.bars[1].o]_vars

\* C35: a pending prerun_ready_after_history_download that the runner's
\* open connection has not been sent on connecting is delivered and
\* acknowledged, which clears it, unless the runner loses the connection
C35_StagedReachesConnected ==
    (pending_prerun_event /\ cl[RunnerConn] /\ hpc[RunnerConn] = "recv"
        /\ ~pendSince[RunnerConn])
      ~> (~cl[RunnerConn] \/ ~pending_prerun_event)

\* C36: the runner sends no ACK for a prerun_ready_after_history_download
\* that it skips because the file is missing or a context is live
C36_AckOnlyIfProcessed ==
    [][(Handled("prerun_ready_after_history_download")
          /\ (~file_exists \/ rctx.live)) => out' = out]_vars

\* C37: the stream yields the base items in order before anything appended;
\* only the last base item may have been replaced, and none is lost
C37_BaseItemsFirst ==
    /\ \A i \in 1..Len(s_got) :
          i < Len(StreamPreload) => s_got[i] = StreamPreload[i]
    /\ s_pc = "done" => Len(s_got) >= Len(StreamPreload)

\* C38: the trade history never holds two equal events, holds every event
\* that was received, and every received event was broadcast
C38_TradesStoredOnce ==
    /\ \A i, j \in 1..Len(trades_history) :
          trades_history[i] = trades_history[j] => i = j
    /\ {trades_history[i] : i \in 1..Len(trades_history)}
          = {t_recv[i] : i \in 1..Len(t_recv)}
    /\ t_bcast = t_recv

\* an event was received a second time, in a batch, after it was stored
C38_Witness ==
    /\ Len(t_recv) = MaxTrades /\ Len(trades_history) = 2
    /\ t_recv[1] = t_recv[3] /\ t_bcast = t_recv

\* the events of a queue are no longer all at its head after the step
Removed(queue, after) ==
    ~(Len(after) >= Len(queue) /\ SubSeq(after, 1, Len(queue)) = queue)

CountOf(kind, frames) == Cardinality({i \in 1..Len(frames) : frames[i] = kind})

\* the step puts at least the events of the queue on the connection
SentAll(kind, queue) == CountOf(kind, out') >= CountOf(kind, out) + Len(queue)

\* C39 as stated: a step removes events from the trade queue or from the
\* plotchar queue only if it sends them
C39_RemovedOnlyWhenSent ==
    [][/\ Removed(trade_event_queue, trade_event_queue')
            => SentAll("trade", trade_event_queue)
       /\ Removed(plotchar_event_queue, plotchar_event_queue')
            => SentAll("plotchar", plotchar_event_queue)]_vars

\* a handler of the runner has run: the events its callbacks queued are
\* sent with those of the queue, or wait behind them in the queue
KeptOrSent(kind, queue, after) ==
    \/ /\ after = <<>>
       /\ CountOf(kind, out') = CountOf(kind, out) + Len(queue) + rlast'.queued
    \/ /\ after = queue \o [i \in 1..rlast'.queued |-> kind]
       /\ CountOf(kind, out') = CountOf(kind, out)

\* C39: a step of the runner that finds the script hashes equal to the
\* persisted ones empties a queue only by sending all its events, those
\* queued in the step included; otherwise it keeps them all, in order
C39_RemovedWhenSentOrReset ==
    [][(script_hash = stored_hash /\ rlast' # rlast)
         => /\ KeptOrSent("trade", trade_event_queue, trade_event_queue')
            /\ KeptOrSent("plotchar", plotchar_event_queue, plotchar_event_queue')]_vars

\* the plotchar send raised in two handlers running the strategy, after
\* the trade send had gone through: both batches of plotchar events wait
C39_Witness ==
    /\ Len(plotchar_event_queue) = 2 /\ trade_event_queue = <<>>
    /\ script_hash = stored_hash

\* ws_loop has just connected
RunnerConnects == ~cl[RunnerConn] /\ cl'[RunnerConn]

ResetSent == \E i \in 1..Len(out') : out'[i] = "reset_history"

\* what follows the hash check of a connect: after reset_history was sent
\* the queues are empty and the persisted hashes are the current ones, and
\* otherwise nothing was cleared or persisted
AfterCheck ==
    /\ reset_try' = "sent" <=> ResetSent
    /\ ResetSent =>
          /\ trade_event_queue' = <<>> /\ plotchar_event_queue' = <<>>
          /\ r_plot_options' = {}
          /\ compute_script_hashes(script_hash) = stored_hash'
    /\ ~ResetSent =>
          UNCHANGED <<trade_event_queue, plotchar_event_queue, r_plot_options,
                      stored_hash>>

\* C40 as stated: on connect the runner sends reset_history exactly when
\* the current hashes differ from the persisted ones
C40_ResetIffHashesDiffer ==
    [][RunnerConnects =>
          /\ reset_try' # "none"
                <=> compute_script_hashes(script_hash) # stored_hash
          /\ AfterCheck]_vars

\* C40: on connect the runner sends reset_history exactly when the script
\* file exists and its hashes differ from the persisted ones; it clears the
\* queues and persists the hashes only after the send went through, a send
\* that raised leaves the mismatch in place, and after a send that went
\* through the hashes are equal
C40_ResetIffExistsAndDiffer ==
    [][RunnerConnects =>
          /\ reset_try' # "none"
                <=> (script_hash # Missing
                       /\ compute_script_hashes(script_hash) # stored_hash)
          /\ AfterCheck
          /\ reset_try' = "raised"
                => compute_script_hashes(script_hash) # stored_hash'
          /\ reset_try' = "sent"
                => compute_script_hashes(script_hash') = stored_hash']_vars

\* the send of reset_history raised on one connect, with events waiting in
\* the queue, and nothing was cleared or persisted
C40_Witness ==
    /\ reset_try = "raised" /\ cl[RunnerConn]
    /\ script_hash = 2 /\ stored_hash = 1
    /\ trade_event_queue # <<>>

====
